---- MODULE Spec2Model ----
(***************************************************************************)
(* A model of the adaptive generation loop of siem_fuzzer: the            *)
(* epsilon-greedy bandit (mab/bandit.py), the seed store (seed_store.py), *)
(* the reward engine (reward_engine.py), the validator (validator.py),    *)
(* the detector adapter (siem_client.py) and generate_one (generator.py). *)
(*                                                                         *)
(* Python floats are modelled as exact rationals <<num, den>> (den > 0,   *)
(* lowest terms); strings that the code inspects character by character   *)
(* are sequences of one-character strings.                                 *)
(***************************************************************************)
EXTENDS Integers, Sequences, FiniteSets, TLC

VARIABLES
    q,                  \* EpsilonGreedyBandit.q : arm -> rational
    n,                  \* EpsilonGreedyBandit.n : arm -> pull count
    bandit_ret,         \* outcome of the last bandit call
    applied_rewards,    \* history: arm -> the rewards update() applied to it, in order
    seeds,              \* SeedStore.seeds : sequence of Seed records
    store_draws,        \* number of draws taken from SeedStore.rng
    store_ret,          \* outcome of the last SeedStore call
    corpus_successful,  \* PayloadGenerator.corpus_successful
    corpus_origin,      \* history: the generation record behind each corpus entry
    calls,              \* collaborator calls made by the last generate_one, in order
    record,             \* the generation record the last generate_one returned
    ops,                \* number of top-level calls made so far (bounds a run)
    probe               \* the last call of a stand-alone function: arguments and result

vars == <<q, n, bandit_ret, applied_rewards, seeds, store_draws, store_ret,
          corpus_successful, corpus_origin, calls, record, ops, probe>>

bandit_vars == <<q, n, bandit_ret, applied_rewards>>
store_vars == <<seeds, store_draws, store_ret>>
generator_vars == <<corpus_successful, corpus_origin, calls, record, ops>>

(***************************************************************************)
(* Exact rational arithmetic standing for Python float arithmetic.         *)
(***************************************************************************)
Abs(x) == IF x < 0 THEN -x ELSE x

RECURSIVE GCD(_, _)
GCD(a, b) == IF b = 0 THEN a ELSE GCD(b, a % b)

Rat(num, den) ==
    LET g == GCD(Abs(num), den)
    IN  IF num = 0 THEN <<0, 1>> ELSE <<num \div g, den \div g>>

MaxInt == 2147483647

\* a * b stays within 32 bits
Fits(a, b) == b = 0 \/ Abs(a) <= MaxInt \div Abs(b)

\* denominators up to SmallDen, of values of magnitude up to 16, multiply
\* within 32 bits
SmallDen == 8192
Small(a, b) == a[2] <= SmallDen /\ b[2] <= SmallDen

\* sums, products and comparisons of larger values go through the least common
\* denominator, so that intermediate values stay within 32-bit integers
RAdd(a, b) ==
    IF Small(a, b) THEN Rat(a[1] * b[2] + b[1] * a[2], a[2] * b[2])
    ELSE IF Fits(a[2], b[2]) /\ Fits(a[1], b[2]) /\ Fits(b[1], a[2])
    THEN Rat(a[1] * b[2] + b[1] * a[2], a[2] * b[2])
    ELSE LET g == GCD(a[2], b[2])
         IN  Rat(a[1] * (b[2] \div g) + b[1] * (a[2] \div g), (a[2] \div g) * b[2])
RSub(a, b) == RAdd(a, <<-b[1], b[2]>>)
RMul(a, b) ==
    IF Small(a, b) \/ (Fits(a[1], b[1]) /\ Fits(a[2], b[2])) THEN Rat(a[1] * b[1], a[2] * b[2])
    ELSE LET g == IF a[1] = 0 THEN 1 ELSE GCD(Abs(a[1]), b[2])
             h == IF b[1] = 0 THEN 1 ELSE GCD(Abs(b[1]), a[2])
         IN  Rat((a[1] \div g) * (b[1] \div h), (a[2] \div h) * (b[2] \div g))
RDivInt(a, k) == RMul(a, <<1, k>>)
FixedBits == 20

RECURSIVE frac_bits(_, _, _)
\* floor((r / den) * 2^k) for 0 <= r < den, by long division
frac_bits(r, den, k) ==
    IF k = 0 THEN 0
    ELSE IF r >= den - r THEN (2 ^ (k - 1)) + frac_bits(r - (den - r), den, k - 1)
    ELSE frac_bits(r + r, den, k - 1)

\* floor(x * 2^FixedBits)
fixed(x) == (x[1] \div x[2]) * (2 ^ FixedBits) + frac_bits(x[1] % x[2], x[2], FixedBits)

\* values that differ in their first FixedBits binary places are ordered by
\* them; the others are compared exactly
RLt(a, b) ==
    IF a[2] = b[2] THEN a[1] < b[1]
    ELSE IF Small(a, b) \/ (Fits(a[1], b[2]) /\ Fits(b[1], a[2])) THEN a[1] * b[2] < b[1] * a[2]
    ELSE LET fa == fixed(a)
             fb == fixed(b)
             g == GCD(a[2], b[2])
         IN  IF fa # fb THEN fa < fb
             ELSE a[1] * (b[2] \div g) < b[1] * (a[2] \div g)
RLe(a, b) == ~RLt(b, a)
FromInt(k) == <<k, 1>>

RECURSIVE RSum(_)
RSum(s) == IF s = <<>> THEN <<0, 1>> ELSE RAdd(Head(s), RSum(Tail(s)))

(***************************************************************************)
(* Bounds of the model and the inputs the operations are tried on.         *)
(***************************************************************************)
MaxUpdates == 3         \* bandit updates in one run of SpecBandit

\* rng.random() returns a float in [0, 1)
Draws == {<<0, 1>>, <<1, 2>>, <<99, 100>>}
Epsilons == {<<0, 1>>, <<1, 10>>, <<1, 1>>}
\* rewards handed to update(): any float; these span the reward range
Rewards == {<<-1, 1>>, <<1, 10>>, <<33, 40>>}
\* 1/32768 and 1/32769 are different floats less than 1e-9 apart
QInits == {<<1, 10>>, <<1, 32768>>}
BanditRewards == {<<-1, 1>>, <<1, 32769>>, <<33, 40>>}

NoArm == "none"
NoReward == <<0, 1>>

(***************************************************************************)
(* The grammar the generator is built from: one obfuscation group, so the  *)
(* bandit's arms are that group followed by the five evasion techniques    *)
(* (generator.py:34-49).                                                   *)
(***************************************************************************)
groups == <<"case_ops">>
evasion_techniques == <<"evasion_insertion", "evasion_substitution",
                        "evasion_omission", "evasion_reordering",
                        "evasion_recoding">>
all_arms == groups \o evasion_techniques
\* the arms of the stand-alone bandit runs: the bandit is generic in its arms
bandit_arms == SubSeq(all_arms, 1, 3)

Range(s) == {s[i] : i \in DOMAIN s}

(***************************************************************************)
(* EpsilonGreedyBandit (mab/bandit.py)                                     *)
(***************************************************************************)
\* __init__: every arm starts at the prior q_init with n = 0
bandit_init(arms, q_init) ==
    [q |-> [a \in Range(arms) |-> q_init], n |-> [a \in Range(arms) |-> 0]]

\* max(self.arms, key=...) returns the first arm of maximal q
maxq_arm(arms, bq) ==
    LET i == CHOOSE i \in DOMAIN arms :
                 /\ \A j \in DOMAIN arms : RLe(bq[arms[j]], bq[arms[i]])
                 /\ \A j \in DOMAIN arms : j < i => RLt(bq[arms[j]], bq[arms[i]])
    IN  arms[i]

\* abs(x - y) < 1e-9 on rationals, without leaving 32-bit integers: values
\* whose first FixedBits binary places differ by two units or more are further
\* apart than 1e-9, for the others the difference is computed exactly
TieTolerance == 1000000000

Close(x, y) ==
    LET exact == LET d == RSub(x, y)
                 IN  d[1] = 0 \/ (d[2] - 1) \div TieTolerance >= Abs(d[1])
    IN  IF x = y THEN TRUE
        ELSE IF Small(x, y) \/ (Fits(x[2], y[2]) /\ Fits(x[1], y[2]) /\ Fits(y[1], x[2]))
        THEN exact
        ELSE IF Abs(fixed(x) - fixed(y)) >= 2 THEN FALSE
        ELSE exact

\* candidates = [a for a in self.arms if abs(self.q[a] - maxval) < 1e-9]
tie_candidates(arms, bq, maxval) ==
    SelectSeq(arms, LAMBDA a : Close(bq[a], maxval))

\* rng.choice(xs) with the draw c: any index of xs can come out
choice(xs, c) == xs[((c - 1) % Len(xs)) + 1]

\* plausible slip: no tie-break, the first arm of maximal q is returned
select_arm_first_max(arms, bq, epsilon, u, c) ==
    IF RLt(u, epsilon) THEN choice(arms, c) ELSE maxq_arm(arms, bq)

\* select_arm(epsilon) with u = rng.random() and c the draw of rng.choice
select_arm(arms, bq, epsilon, u, c) ==
    IF RLt(u, epsilon)
    THEN choice(arms, c)
    ELSE LET maxq == maxq_arm(arms, bq)
             candidates == tie_candidates(arms, bq, bq[maxq])
         IN  IF Len(candidates) > 1 THEN choice(candidates, c) ELSE maxq

\* plausible slip: the divisor is one more than the incremented count
update_divisor_off_by_one(bq, bn, arm, reward) ==
    LET n1 == bn[arm] + 1
    IN  [q |-> [bq EXCEPT ![arm] = RAdd(@, RDivInt(RSub(reward, @), n1 + 1))],
         n |-> [bn EXCEPT ![arm] = n1]]

\* plausible slip: the reward's share is added without taking the old mean out
update_adds_share(bq, bn, arm, reward) ==
    LET n1 == bn[arm] + 1
    IN  [q |-> [bq EXCEPT ![arm] = RAdd(@, RDivInt(reward, n1))],
         n |-> [bn EXCEPT ![arm] = n1]]

\* update(arm, reward): n[arm] += 1; q[arm] += (reward - q[arm]) / n[arm]
update(bq, bn, arm, reward) ==
    LET n1 == bn[arm] + 1
    IN  [q |-> [bq EXCEPT ![arm] = RAdd(@, RDivInt(RSub(reward, @), n1))],
         n |-> [bn EXCEPT ![arm] = n1]]

(***************************************************************************)
(* The bandit on its own: any interleaving of update and select_arm.       *)
(***************************************************************************)
NoRecord ==
    [payload |-> <<>>, valid |-> FALSE, detected |-> FALSE, similarity |-> <<0, 1>>,
     reward |-> <<0, 1>>, seed_id |-> "", applied_groups |-> <<>>, core |-> <<>>]
    \* core: the mutated core the payload was assembled from (history)

BanditRet(op, arm, epsilon, reward) ==
    [op |-> op, arm |-> arm, epsilon |-> epsilon, reward |-> reward]

StoreRet(op, id, arg, index, error, draws) ==
    [op |-> op, id |-> id, arg |-> arg, index |-> index, error |-> error, draws |-> draws]

NoProbe == [op |-> "none"]

IdleRest ==
    /\ probe = NoProbe
    /\ corpus_successful = <<>>
    /\ corpus_origin = <<>>
    /\ calls = <<>>
    /\ record = NoRecord
    /\ ops = 0

InitBandit ==
    /\ \E q_init \in QInits :
          /\ q = bandit_init(bandit_arms, q_init).q
          /\ n = bandit_init(bandit_arms, q_init).n
    /\ bandit_ret = BanditRet("init", NoArm, <<0, 1>>, NoReward)
    /\ applied_rewards = [a \in Range(bandit_arms) |-> <<>>]
    /\ seeds = <<>>
    /\ store_draws = 0
    /\ store_ret = StoreRet("init", "", <<0, 1>>, 0, "", 0)
    /\ IdleRest

TotalUpdates == LET RECURSIVE Tot(_)
                    Tot(S) == IF S = {} THEN 0
                              ELSE LET a == CHOOSE a \in S : TRUE
                                   IN  n[a] + Tot(S \ {a})
                IN  Tot(Range(bandit_arms))

BanditUpdate ==
    \E arm \in Range(bandit_arms), reward \in BanditRewards :
        /\ TotalUpdates < MaxUpdates
        /\ q' = update(q, n, arm, reward).q
        /\ n' = update(q, n, arm, reward).n
        /\ applied_rewards' = [applied_rewards EXCEPT ![arm] = Append(@, reward)]
        /\ bandit_ret' = BanditRet("update", arm, <<0, 1>>, reward)
        /\ UNCHANGED <<store_vars, generator_vars, probe>>

\* the largest q of any arm
max_q == q[maxq_arm(bandit_arms, q)]

BanditSelectArm ==
    \E epsilon \in Epsilons, u \in Draws :
      \E c \in 1..(IF RLt(u, epsilon) THEN Len(bandit_arms)
                   ELSE Len(tie_candidates(bandit_arms, q, max_q))) :
        /\ bandit_ret' = BanditRet("select_arm", select_arm(bandit_arms, q, epsilon, u, c),
                                   epsilon, NoReward)
        /\ UNCHANGED <<q, n, applied_rewards, store_vars, generator_vars, probe>>

NextBandit == BanditUpdate \/ BanditSelectArm

SpecBandit == InitBandit /\ [][NextBandit]_vars

\* C1: for every arm, n[arm] counts the updates applied to it and, once it has
\* been updated, q[arm] is the arithmetic mean of exactly those rewards (the
\* prior q_init no longer contributes).
BanditMeanInvariant ==
    \A a \in Range(bandit_arms) :
        /\ n[a] = Len(applied_rewards[a])
        /\ n[a] >= 1 => RMul(q[a], FromInt(n[a])) = RSum(applied_rewards[a])

\* an arm updated twice with different rewards, after a select_arm call and an
\* update of another arm
BanditMeanWitness ==
    \E a, b \in Range(bandit_arms) :
        /\ a # b
        /\ n[a] = 2 /\ n[b] = 1
        /\ applied_rewards[a][1] # applied_rewards[a][2]
        /\ bandit_ret.op = "select_arm"

RMin(s) == CHOOSE x \in Range(s) : \A y \in Range(s) : RLe(x, y)
RMax(s) == CHOOSE x \in Range(s) : \A y \in Range(s) : RLe(y, x)

SelectArmGreedyReturnsMax ==
    /\ (bandit_ret.op = "select_arm" /\ bandit_ret.epsilon = <<0, 1>>)
           => q[bandit_ret.arm] = max_q
    /\ \A a \in Range(bandit_arms) :
           q[a] = max_q =>
               \A u \in Draws : \E c \in 1..Len(bandit_arms) :
                   select_arm(bandit_arms, q, <<0, 1>>, u, c) = a

\* C12 amended: select_arm(0) returns an arm whose q is less than 1e-9 below
\* the maximal q, and every such arm (every arm of maximal q among them) can
\* be returned; with all arms at the prior every arm can be returned.
SelectArmGreedyReturnsNearMax ==
    /\ (bandit_ret.op = "select_arm" /\ bandit_ret.epsilon = <<0, 1>>)
           => Close(q[bandit_ret.arm], max_q)
    /\ \A a \in Range(bandit_arms) :
           Close(q[a], max_q) =>
               \A u \in Draws : \E c \in 1..Len(bandit_arms) :
                   select_arm(bandit_arms, q, <<0, 1>>, u, c) = a

\* select_arm(0) returned an arm that is not the first of maximal q: once in a
\* tie of all arms at the prior, once with a q just below the maximum
SelectArmGreedyWitness ==
    /\ bandit_ret.op = "select_arm" /\ bandit_ret.epsilon = <<0, 1>>
    /\ bandit_ret.arm # maxq_arm(bandit_arms, q)
    /\ \/ \A a \in Range(bandit_arms) : n[a] = 0
       \/ RLt(q[bandit_ret.arm], max_q)

(***************************************************************************)
(* SeedStore (seed_store.py).  A Seed keeps id, string, q_s and n_s; its   *)
(* invalid_count, cluster_id and last_used are set at construction and     *)
(* never read or written afterwards, so the model leaves them out.         *)
(***************************************************************************)
MaxStoreOps == 2        \* SeedStore calls in one run of SpecStore

Absent == "<absent>"    \* a key the seed record does not carry
DefaultQ == <<1, 10>>   \* Seed.q_s default, seed_dict.get("q_s", 0.1)

SeedStringA == <<"n", "e", "t", " ", "s", "t", "a", "r", "t", " ", "w">>
SeedStringB == <<"s", "c", " ", "s", "t", "a", "r", "t", " ", "w">>
SeedStringC == <<"x", " ", "y">>
SeedStrings == <<SeedStringA, SeedStringB, SeedStringC>>

\* f"seed_{k}"
seed_name(k) == "seed_" \o ToString(k)

Seed(id, string, q_s, n_s) == [id |-> id, string |-> string, q_s |-> q_s, n_s |-> n_s]

AbsentQ == <<0, 0>>     \* no "q_s" key
AbsentN == -1           \* no "n_s" key

\* seed records as read from JSON: id, q_s and n_s are optional
SeedDicts ==
    [id : {Absent, "seed_2", "a"}, string : {SeedStringA},
     q_s : {AbsentQ, <<19, 20>>}, n_s : {AbsentN}]
    \cup [id : {Absent, "b"}, string : {SeedStringB}, q_s : {<<-1, 1>>}, n_s : {2}]

\* a plain string seed, carrying no key at all
PlainSeed(string) == [id |-> Absent, string |-> string, q_s |-> AbsentQ, n_s |-> AbsentN]

\* the seed lists a store is built from: absent or empty ("none"), flat lists
\* of strings, lists of records
SeedInputs ==
    {[kind |-> "none", items |-> <<>>]}
    \cup {[kind |-> "strings", items |-> [i \in 1..k |-> PlainSeed(SeedStrings[i])]] :
             k \in 1..3}
    \cup {[kind |-> "dicts", items |-> <<d>>] : d \in SeedDicts}
    \cup {[kind |-> "dicts", items |-> <<d1, d2>>] : d1 \in SeedDicts, d2 \in SeedDicts}

RECURSIVE seeds_from_dicts(_, _)
\* the loop of __init__ over seed records: the default id counts the seeds
\* appended so far
seeds_from_dicts(items, acc) ==
    IF items = <<>> THEN acc
    ELSE LET d == Head(items)
             s == Seed(IF d.id = Absent THEN seed_name(Len(acc) + 1) ELSE d.id,
                       d.string,
                       IF d.q_s = AbsentQ THEN DefaultQ ELSE d.q_s,
                       IF d.n_s = AbsentN THEN 0 ELSE d.n_s)
         IN  seeds_from_dicts(Tail(items), Append(acc, s))

\* SeedStore.__init__(seeds)
seed_store_init(input) ==
    IF input.kind = "none" THEN <<>>
    ELSE IF input.kind = "dicts" THEN seeds_from_dicts(input.items, <<>>)
    ELSE [i \in DOMAIN input.items |->
              Seed(seed_name(i), input.items[i].string, DefaultQ, 0)]

\* max(self.seeds, key=lambda s: s.q_s): the first seed of maximal q_s
best_seed(ss) ==
    CHOOSE i \in DOMAIN ss :
        /\ \A j \in DOMAIN ss : RLe(ss[j].q_s, ss[i].q_s)
        /\ \A j \in DOMAIN ss : j < i => RLt(ss[j].q_s, ss[i].q_s)

\* plausible slip: the emptiness test is missing, so the draw is taken first and
\* max() or rng.choice() fails on the empty list
select_seed_epsilon_unchecked(ss, eps, u, c) ==
    IF ss = <<>>
    THEN [error |-> IF RLt(u, eps) THEN "IndexError" ELSE "ValueError", index |-> 0,
          draws |-> 1]
    ELSE IF RLt(u, eps) THEN [error |-> "", index |-> ((c - 1) % Len(ss)) + 1, draws |-> 2]
    ELSE [error |-> "", index |-> best_seed(ss), draws |-> 1]

\* plausible slip: the exploration test is u <= eps
select_seed_epsilon_le(ss, eps, u, c) ==
    IF ss = <<>> THEN [error |-> "ValueError", index |-> 0, draws |-> 0]
    ELSE IF RLe(u, eps) THEN [error |-> "", index |-> ((c - 1) % Len(ss)) + 1, draws |-> 2]
    ELSE [error |-> "", index |-> best_seed(ss), draws |-> 1]

\* select_seed_epsilon(eps) with u = rng.random() and c the draw of
\* rng.choice; index is the position of the returned seed
select_seed_epsilon(ss, eps, u, c) ==
    IF ss = <<>> THEN [error |-> "ValueError", index |-> 0, draws |-> 0]
    ELSE IF RLt(u, eps) THEN [error |-> "", index |-> ((c - 1) % Len(ss)) + 1, draws |-> 2]
    ELSE [error |-> "", index |-> best_seed(ss), draws |-> 1]

\* the first seed the loop "for s in self.seeds: if s.id == seed_id" reaches
\* (0 when no seed carries the id)
first_with_id(ss, seed_id) ==
    IF \E i \in DOMAIN ss : ss[i].id = seed_id
    THEN CHOOSE i \in DOMAIN ss :
             ss[i].id = seed_id /\ \A j \in DOMAIN ss : j < i => ss[j].id # seed_id
    ELSE 0

\* plausible slip: q is moved before n is incremented, dividing by n + 2
update_seed_stale_count(ss, seed_id, reward) ==
    LET i == first_with_id(ss, seed_id)
    IN  IF i = 0 THEN [seeds |-> ss, error |-> ""]
        ELSE [seeds |-> [ss EXCEPT ![i] = [@ EXCEPT !.n_s = @ + 1,
                   !.q_s = RAdd(ss[i].q_s, RDivInt(RSub(reward, ss[i].q_s), ss[i].n_s + 2))]],
              error |-> ""]

\* update_seed(seed_id, reward): the new seed list and the error raised ("":
\* none).  The loop ends without a match when no seed carries seed_id, and the
\* method returns normally.
update_seed(ss, seed_id, reward) ==
    LET i == first_with_id(ss, seed_id)
    IN  IF i = 0 THEN [seeds |-> ss, error |-> ""]
        ELSE [seeds |-> [ss EXCEPT ![i] = [@ EXCEPT !.n_s = @ + 1,
                   !.q_s = RAdd(ss[i].q_s, RDivInt(RSub(reward, ss[i].q_s), ss[i].n_s + 1))]],
              error |-> ""]

\* plausible slip: the scale itself is added to q
boost_seed_additive(ss, seed_id, boost_scale) ==
    LET i == first_with_id(ss, seed_id)
    IN  IF i = 0 THEN [seeds |-> ss, error |-> ""]
        ELSE [seeds |-> [ss EXCEPT ![i].q_s = RAdd(@, boost_scale)], error |-> ""]

\* plausible slip: the boost also counts as a pull
boost_seed_counts_pull(ss, seed_id, boost_scale) ==
    LET i == first_with_id(ss, seed_id)
    IN  IF i = 0 THEN [seeds |-> ss, error |-> ""]
        ELSE [seeds |-> [ss EXCEPT ![i] = [@ EXCEPT !.n_s = @ + 1,
                   !.q_s = RAdd(ss[i].q_s, RMul(RSub(<<1, 1>>, ss[i].q_s), boost_scale))]],
              error |-> ""]

\* boost_seed(seed_id, boost_scale): the new seed list and the error raised
boost_seed(ss, seed_id, boost_scale) ==
    LET i == first_with_id(ss, seed_id)
    IN  IF i = 0 THEN [seeds |-> ss, error |-> ""]
        ELSE [seeds |-> [ss EXCEPT ![i].q_s = RAdd(@, RMul(RSub(<<1, 1>>, @), boost_scale))],
              error |-> ""]

(***************************************************************************)
(* The seed store on its own: any sequence of its three operations on a    *)
(* store built from any accepted seed list.                                *)
(***************************************************************************)
\* the ends of [0, 1], the default scale and generate_one's
BoostScales == {<<0, 1>>, <<2, 5>>, <<1, 2>>, <<1, 1>>}
UnknownId == "no_such_seed"
SeedIds == {seeds[i].id : i \in DOMAIN seeds}

InitStore ==
    /\ \E input \in SeedInputs : seeds = seed_store_init(input)
    /\ store_draws = 0
    /\ store_ret = StoreRet("init", "", <<0, 1>>, 0, "", 0)
    /\ q = bandit_init(bandit_arms, DefaultQ).q
    /\ n = bandit_init(bandit_arms, DefaultQ).n
    /\ bandit_ret = BanditRet("init", NoArm, <<0, 1>>, NoReward)
    /\ applied_rewards = [a \in Range(bandit_arms) |-> <<>>]
    /\ IdleRest

StoreSelect ==
    \E eps \in Epsilons, u \in Draws, c \in 1..3 :
        LET r == select_seed_epsilon(seeds, eps, u, c)
        IN  /\ ops < MaxStoreOps
            /\ store_ret' = StoreRet("select_seed_epsilon", "", eps, r.index, r.error, r.draws)
            /\ store_draws' = store_draws + r.draws
            /\ ops' = ops + 1
            /\ UNCHANGED <<seeds, bandit_vars, corpus_successful, corpus_origin, calls, record, probe>>

StoreUpdate ==
    \E seed_id \in SeedIds \cup {UnknownId}, reward \in Rewards :
        /\ ops < MaxStoreOps
        /\ seeds' = update_seed(seeds, seed_id, reward).seeds
        /\ store_ret' = StoreRet("update_seed", seed_id, reward, first_with_id(seeds, seed_id),
                                 update_seed(seeds, seed_id, reward).error, 0)
        /\ ops' = ops + 1
        /\ UNCHANGED <<store_draws, bandit_vars, corpus_successful, corpus_origin, calls, record, probe>>

StoreBoost ==
    \E seed_id \in SeedIds \cup {UnknownId}, boost_scale \in BoostScales :
        /\ ops < MaxStoreOps
        /\ seeds' = boost_seed(seeds, seed_id, boost_scale).seeds
        /\ store_ret' = StoreRet("boost_seed", seed_id, boost_scale, first_with_id(seeds, seed_id),
                                 boost_seed(seeds, seed_id, boost_scale).error, 0)
        /\ ops' = ops + 1
        /\ UNCHANGED <<store_draws, bandit_vars, corpus_successful, corpus_origin, calls, record, probe>>

NextStore == StoreSelect \/ StoreUpdate \/ StoreBoost

SpecStore == InitStore /\ [][NextStore]_vars

\* C5: select_seed_epsilon(0.0) on a non-empty store returns a seed whose q is
\* the maximum over the store, whatever update_seed and boost_seed did before,
\* and the seed returned does not depend on the random draws.
SelectGreedyReturnsMax ==
    (store_ret.op = "select_seed_epsilon" /\ store_ret.arg = <<0, 1>> /\ seeds # <<>>) =>
        /\ store_ret.error = ""
        /\ store_ret.index \in DOMAIN seeds
        /\ \A j \in DOMAIN seeds : RLe(seeds[j].q_s, seeds[store_ret.index].q_s)
        /\ \A u \in Draws, c \in 1..3 :
               select_seed_epsilon(seeds, <<0, 1>>, u, c).index = store_ret.index

\* a greedy selection that had to pass over the first seed, after an update
SelectGreedyWitness ==
    /\ store_ret.op = "select_seed_epsilon" /\ store_ret.arg = <<0, 1>>
    /\ Len(seeds) >= 2
    /\ store_ret.index = 2
    /\ \E i \in DOMAIN seeds : seeds[i].n_s > 0 /\ seeds[i].q_s # DefaultQ

\* C6: update_seed(id, reward) for a known id raises the pull count of the seed
\* carrying that id by exactly 1 and moves its q to q + (reward - q) / n with the
\* incremented n, that is n' * q' = n * q + reward.
UpdateSeedEffect ==
    [][(store_ret'.op = "update_seed" /\ first_with_id(seeds, store_ret'.id) # 0) =>
          LET i == first_with_id(seeds, store_ret'.id)
          IN  /\ seeds'[i].n_s = seeds[i].n_s + 1
              /\ RSub(RMul(seeds'[i].q_s, FromInt(seeds'[i].n_s)),
                      RMul(seeds[i].q_s, FromInt(seeds[i].n_s))) = store_ret'.arg]_vars

\* a second update of the same seed, whose q moved
UpdateSeedWitness ==
    /\ store_ret.op = "update_seed" /\ store_ret.index # 0
    /\ seeds[store_ret.index].n_s = 2
    /\ seeds[store_ret.index].q_s # store_ret.arg

\* C7: boost_seed(id, scale) for a known id moves q to q + (1 - q) * scale, that
\* is 1 - q' = (1 - q) * (1 - scale), and leaves that seed's n and every other
\* seed unchanged.
BoostSeedFrame ==
    [][(store_ret'.op = "boost_seed" /\ first_with_id(seeds, store_ret'.id) # 0) =>
          LET i == first_with_id(seeds, store_ret'.id)
          IN  /\ RSub(<<1, 1>>, seeds'[i].q_s) =
                     RMul(RSub(<<1, 1>>, seeds[i].q_s), RSub(<<1, 1>>, store_ret'.arg))
              /\ seeds'[i].n_s = seeds[i].n_s
              /\ seeds'[i].id = seeds[i].id /\ seeds'[i].string = seeds[i].string
              /\ DOMAIN seeds' = DOMAIN seeds
              /\ \A j \in DOMAIN seeds : j # i => seeds'[j] = seeds[j]]_vars

\* a boost of the second of two seeds, after it was pulled
BoostSeedWitness ==
    /\ store_ret.op = "boost_seed" /\ store_ret.index = 2
    /\ seeds[2].n_s > 0

\* every seed's q lies in [-1, 1]
QualitiesInRange(ss) ==
    \A i \in DOMAIN ss : RLe(<<-1, 1>>, ss[i].q_s) /\ RLe(ss[i].q_s, <<1, 1>>)

\* C39: in a store whose qualities lie in [-1, 1], any call of update_seed
\* with a reward in [-1, 1] or of boost_seed with a scale in [0, 1] leaves
\* every q in [-1, 1]; boost_seed lowers no q and no call lowers an n.
SeedQualityStaysInRange ==
    [][QualitiesInRange(seeds) =>
          /\ DOMAIN seeds' = DOMAIN seeds
          /\ QualitiesInRange(seeds')
          /\ \A i \in DOMAIN seeds : seeds'[i].n_s >= seeds[i].n_s
          /\ store_ret'.op = "boost_seed" =>
                 \A i \in DOMAIN seeds : RLe(seeds[i].q_s, seeds'[i].q_s)]_vars

\* a seed that an update with the reward -1 took to -1 and a boost of one
\* half lifted to 0
SeedQualityStaysInRangeWitness ==
    /\ store_ret.op = "boost_seed" /\ store_ret.index # 0
    /\ store_ret.arg = <<1, 2>>
    /\ seeds[store_ret.index].n_s = 1
    /\ seeds[store_ret.index].q_s = <<0, 1>>

\* C8: select_seed_epsilon on an empty store raises an error for every epsilon
\* and changes nothing: no seed appears and no random draw is taken.
SelectOnEmptyFails ==
    [][(store_ret'.op = "select_seed_epsilon" /\ seeds = <<>>) =>
          /\ store_ret'.error = "ValueError"
          /\ store_ret'.draws = 0
          /\ seeds' = seeds
          /\ store_draws' = store_draws]_vars

\* a selection with epsilon 1 on the empty store, as the first call
SelectOnEmptyWitness ==
    /\ store_ret.op = "select_seed_epsilon" /\ store_ret.arg = <<1, 1>>
    /\ seeds = <<>> /\ ops = 1
    /\ store_ret.error = "ValueError"

\* C9: update_seed and boost_seed with an id no seed carries fail with an error
\* and leave every seed unchanged.
UnknownIdFails ==
    [][(store_ret'.op \in {"update_seed", "boost_seed"}
            /\ first_with_id(seeds, store_ret'.id) = 0) =>
          (store_ret'.error # "" /\ seeds' = seeds)]_vars

\* C10: every seed id is unique within the store.
SeedIdsUnique ==
    \A i, j \in DOMAIN seeds : i # j => seeds[i].id # seeds[j].id

(***************************************************************************)
(* Strings as sequences of characters, and the validator (validator.py).   *)
(***************************************************************************)
Upper == <<"A", "B", "C", "D", "E", "F", "G", "H", "I", "J", "K", "L", "M", "N", "O", "P", "Q", "R", "S", "T", "U", "V", "W", "X", "Y", "Z">>
Lowercase == <<"a", "b", "c", "d", "e", "f", "g", "h", "i", "j", "k", "l", "m", "n", "o", "p", "q", "r", "s", "t", "u", "v", "w", "x", "y", "z">>
Digits == {"0", "1", "2", "3", "4", "5", "6", "7", "8", "9"}
Whitespace == {" ", "\t"}

LowerOf == [c \in Range(Upper) |-> Lowercase[CHOOSE i \in DOMAIN Upper : Upper[i] = c]]
WordChars == Range(Upper) \cup Range(Lowercase) \cup Digits \cup {"_"}

\* str.lower() on one character
lower_char(c) == IF c \in DOMAIN LowerOf THEN LowerOf[c] ELSE c

\* str.lower()
lower(s) == [i \in DOMAIN s |-> lower_char(s[i])]

\* s.replace(ch, "")
remove_char(s, ch) == SelectSeq(s, LAMBDA c : c # ch)

RECURSIVE collapse_spaces(_)
\* re.sub(r"\s+", " ", s): every maximal run of whitespace becomes one space
collapse_spaces(s) ==
    IF s = <<>> THEN <<>>
    ELSE IF Head(s) \in Whitespace
         THEN IF Len(s) > 1 /\ s[2] \in Whitespace
              THEN collapse_spaces(Tail(s))
              ELSE <<" ">> \o collapse_spaces(Tail(s))
         ELSE <<Head(s)>> \o collapse_spaces(Tail(s))

RECURSIVE lstrip(_)
lstrip(s) == IF s # <<>> /\ Head(s) \in Whitespace THEN lstrip(Tail(s)) ELSE s

RECURSIVE rstrip(_)
rstrip(s) ==
    IF s # <<>> /\ s[Len(s)] \in Whitespace THEN rstrip(SubSeq(s, 1, Len(s) - 1)) ELSE s

\* str.strip()
strip(s) == rstrip(lstrip(s))

\* normalize_spaces(s)
normalize_spaces(s) == strip(collapse_spaces(s))

\* plausible slip: whitespace is collapsed before the carets are taken out
canonicalize_payload_collapse_first(p) == lower(remove_char(strip(collapse_spaces(p)), "^"))

\* canonicalize_payload(p): drop carets, collapse and trim whitespace, lower-case
canonicalize_payload(p) == lower(strip(collapse_spaces(remove_char(p, "^"))))

\* sub in s  (Python's "in" on strings)
contains(s, sub) ==
    \E i \in 1..(Len(s) - Len(sub) + 1) : \A k \in 1..Len(sub) : s[i + k - 1] = sub[k]

\* \w of a regular expression
is_word_char(c) == c \in WordChars

\* pat\b matches at position i of s (pat ends in a word character)
matches_word_at(s, i, pat) ==
    /\ i + Len(pat) - 1 <= Len(s)
    /\ \A k \in 1..Len(pat) : lower_char(s[i + k - 1]) = pat[k]
    /\ (i + Len(pat) > Len(s) \/ ~is_word_char(s[i + Len(pat)]))

RECURSIVE sub_word(_, _, _, _)
\* re.sub(pat + r"\b", rep, s, flags=re.IGNORECASE), scanning from position i
sub_word(s, i, pat, rep) ==
    IF i > Len(s) THEN <<>>
    ELSE IF matches_word_at(s, i, pat)
         THEN rep \o sub_word(s, i + Len(pat), pat, rep)
         ELSE <<s[i]>> \o sub_word(s, i + 1, pat, rep)

FlagNoninteractive == <<"-", "n", "o", "n", "i", "n", "t", "e", "r", "a", "c", "t", "i", "v", "e">>
FlagNoni == <<"-", "n", "o", "n", "i">>
FlagExecutionpolicy == <<"-", "e", "x", "e", "c", "u", "t", "i", "o", "n", "p", "o", "l", "i", "c", "y">>
FlagEp == <<"-", "e", "p">>

\* Validator._normalize_for_matching(payload)
normalize_for_matching(payload) ==
    LET n0 == lower(payload)
        n1 == sub_word(n0, 1, FlagNoninteractive, FlagNoni)
        n2 == sub_word(n1, 1, FlagNoni, FlagNoni)
        n3 == sub_word(n2, 1, FlagExecutionpolicy, FlagEp)
    IN  sub_word(n3, 1, FlagEp, FlagEp)

(***************************************************************************)
(* The grammar of the run: required keyword "start", a positive regular    *)
(* expression without metacharacters, one structure (executable, "start",  *)
(* argument), two output templates.                                        *)
(***************************************************************************)
NoRegex == <<>>
max_payload_len == 18
grammar ==
    [meta |-> [max_payload_len |-> max_payload_len],
     constraints |-> [must_contain_keyword |-> <<<<"s", "t", "a", "r", "t">>>>,
                      must_contain_all |-> <<>>,
                      regex_positive |-> <<" ", "s", "t", "a", "r", "t", " ">>],
     terminals |->
         [executables |-> <<[tok |-> <<"n", "e", "t">>, weight |-> 1, examples |-> <<>>],
                            [tok |-> <<"s", "c">>, weight |-> 1, examples |-> <<>>]>>,
          arguments |-> <<[tok |-> <<"<", "s", "v", "c", ">">>, weight |-> 1,
                           examples |-> <<<<"w">>, <<"x">>>>]>>],
     structures |-> <<<<[type |-> "choose", from |-> "executables", tok |-> <<>>],
                        [type |-> "sep", from |-> "", tok |-> <<" ">>],
                        [type |-> "literal", from |-> "", tok |-> <<"s", "t", "a", "r", "t">>],
                        [type |-> "sep", from |-> "", tok |-> <<" ">>],
                        [type |-> "choose", from |-> "arguments", tok |-> <<>>]>>>>,
     wrappers |-> <<[prefix |-> <<>>, suffix |-> <<>>, weight |-> 1],
                    [prefix |-> <<"c", "m", "d", " ", "/", "c", " ">>, suffix |-> <<>>, weight |-> 1]>>,
     obfuscation_groups |->
         [g \in Range(groups) |->
              <<[name |-> "uppercase_exe", sample |-> <<"N", "E", "T">>],
                [name |-> "caret_exe", sample |-> <<"n", "^", "e", "t">>]>>],
     mutation_engine |-> [max_mutations |-> 2],
     sampling |-> [epsilon_seed |-> <<1, 10>>, epsilon_group |-> <<1, 10>>]]

\* the grammar of the run without its required keyword
grammar_no_keywords == [grammar EXCEPT !.constraints.must_contain_keyword = <<>>]

\* Validator.__init__: the keyword list, must_contain_keyword first, then
\* must_contain_all, duplicates removed
validator_keywords(g) ==
    Range(g.constraints.must_contain_keyword) \cup Range(g.constraints.must_contain_all)

\* re.search(regex, canon, flags=re.IGNORECASE) for a regex without
\* metacharacters
re_search(regex, text) == contains(lower(text), lower(regex))

\* Validator.quick_check(core)
quick_check(g, core) ==
    IF validator_keywords(g) = {} THEN TRUE
    ELSE LET canon_norm == normalize_for_matching(canonicalize_payload(core))
         IN  \A keyword \in validator_keywords(g) : contains(canon_norm, keyword)

\* plausible slip: the keywords are left to quick_check and not tested again
full_check_regex_only(g, payload, max_len) ==
    IF Len(payload) > max_len THEN FALSE
    ELSE g.constraints.regex_positive # NoRegex =>
             re_search(g.constraints.regex_positive, canonicalize_payload(payload))

\* plausible slip: the length test is dropped
full_check_no_length(g, payload, max_len) ==
    LET canon == canonicalize_payload(payload)
        canon_norm == normalize_for_matching(canon)
    IN  /\ \A keyword \in validator_keywords(g) : contains(canon_norm, keyword)
        /\ g.constraints.regex_positive # NoRegex =>
               re_search(g.constraints.regex_positive, canon)

\* Validator.full_check(payload, max_len)
full_check(g, payload, max_len) ==
    IF Len(payload) > max_len THEN FALSE
    ELSE LET canon == canonicalize_payload(payload)
             canon_norm == normalize_for_matching(canon)
         IN  /\ \A keyword \in validator_keywords(g) : contains(canon_norm, keyword)
             /\ g.constraints.regex_positive # NoRegex =>
                    re_search(g.constraints.regex_positive, canon)

(***************************************************************************)
(* RewardEngine (reward_engine.py)                                         *)
(***************************************************************************)
default_weights ==
    [w_bypass |-> <<3, 5>>, w_similarity |-> <<1, 4>>, w_novelty |-> <<1, 10>>,
     w_invalid |-> <<3, 10>>]

\* plausible slip: only the upper clamp is applied
compute_clamps_above_only(w, detected, similarity, novelty, invalid) ==
    LET bypass == IF detected THEN <<0, 1>> ELSE <<1, 1>>
        r0 == RAdd(RAdd(RMul(w.w_bypass, bypass),
                        RMul(w.w_similarity, RSub(<<1, 1>>, similarity))),
                   RMul(w.w_novelty, novelty))
        r_raw == IF invalid THEN RSub(r0, w.w_invalid) ELSE r0
    IN  IF RLt(<<1, 1>>, r_raw) THEN <<1, 1>> ELSE r_raw

\* plausible slip: the penalty of an invalid payload is never taken off
compute_ignores_invalid(w, detected, similarity, novelty, invalid) ==
    LET bypass == IF detected THEN <<0, 1>> ELSE <<1, 1>>
        r_raw == RAdd(RAdd(RMul(w.w_bypass, bypass),
                           RMul(w.w_similarity, RSub(<<1, 1>>, similarity))),
                      RMul(w.w_novelty, novelty))
    IN  IF RLt(<<1, 1>>, r_raw) THEN <<1, 1>>
        ELSE IF RLt(r_raw, <<-1, 1>>) THEN <<-1, 1>>
        ELSE r_raw

\* RewardEngine.compute(detected, similarity, novelty, invalid)
compute(w, detected, similarity, novelty, invalid) ==
    LET bypass == IF detected THEN <<0, 1>> ELSE <<1, 1>>
        r0 == RAdd(RAdd(RMul(w.w_bypass, bypass),
                        RMul(w.w_similarity, RSub(<<1, 1>>, similarity))),
                   RMul(w.w_novelty, novelty))
        r_raw == IF invalid THEN RSub(r0, w.w_invalid) ELSE r0
    IN  IF RLt(<<1, 1>>, r_raw) THEN <<1, 1>>
        ELSE IF RLt(r_raw, <<-1, 1>>) THEN <<-1, 1>>
        ELSE r_raw

(***************************************************************************)
(* RealSiemClient.analyze (siem_client.py): up to six queries, each of     *)
(* which reports a hit, reports no hit, or fails.                          *)
(***************************************************************************)
QueryAttempts == 6
QueryAnswers ==
    {[i \in 1..QueryAttempts |-> "miss"],
     [i \in 1..QueryAttempts |-> "error"],
     [i \in 1..QueryAttempts |-> IF i = 1 THEN "error" ELSE IF i = 2 THEN "miss" ELSE "hit"]}

RECURSIVE query_loop_stops_on_error(_, _)
\* plausible slip: the try block around the loop instead of inside it, so a
\* failed query ends the polling
query_loop_stops_on_error(answers, i) ==
    IF i > QueryAttempts THEN [detected |-> FALSE, queries |-> i - 1]
    ELSE IF answers[i] = "hit" THEN [detected |-> TRUE, queries |-> i]
    ELSE IF answers[i] = "error" THEN [detected |-> FALSE, queries |-> i]
    ELSE query_loop_stops_on_error(answers, i + 1)

RECURSIVE query_loop(_, _)
\* the retry loop from attempt i on: whether a hit was found, and the number
\* of queries issued
query_loop(answers, i) ==
    IF i > QueryAttempts THEN [detected |-> FALSE, queries |-> i - 1]
    ELSE IF answers[i] = "hit" THEN [detected |-> TRUE, queries |-> i]
    ELSE query_loop(answers, i + 1)

\* analyze(payload), given the answers of the search backend
analyze(payload, answers) ==
    LET r == query_loop(answers, 1)
        can == canonicalize_payload(payload)
    IN  [detected |-> r.detected,
         similarity |-> IF r.detected THEN <<1, 1>>
                        ELSE IF can = normalize_spaces(payload) THEN <<1, 1>>
                        ELSE <<1, 2>>,
         queries |-> r.queries]

(***************************************************************************)
(* PayloadGenerator (generator.py)                                         *)
(***************************************************************************)
MaxGenerations == 2     \* generate_one calls in one run

\* the seed lists the generator is built from (custom_seeds)
GeneratorSeedInputs ==
    {[kind |-> "none", items |-> <<>>],
     [kind |-> "strings", items |-> [i \in 1..2 |-> PlainSeed(SeedStrings[i])]],
     [kind |-> "dicts",
      items |-> <<[id |-> "seed_2", string |-> SeedStringA, q_s |-> AbsentQ, n_s |-> AbsentN],
                  [id |-> Absent, string |-> SeedStringB, q_s |-> <<19, 20>>, n_s |-> AbsentN]>>],
     [kind |-> "dicts",
      items |-> <<[id |-> "a", string |-> SeedStringA, q_s |-> <<-1, 1>>, n_s |-> 2],
                  [id |-> "b", string |-> SeedStringB, q_s |-> <<19, 20>>, n_s |-> AbsentN]>>]}

RECURSIVE weight_sum(_)
weight_sum(items) == IF items = <<>> THEN 0 ELSE Head(items).weight + weight_sum(Tail(items))

\* pick_weighted(items) with u = rng.random(): the first item whose running
\* weight reaches u * total, else the last item
pick_weighted(items, u) ==
    LET r == RMul(u, FromInt(weight_sum(items)))
        hit(i) == RLe(r, FromInt(weight_sum(SubSeq(items, 1, i))))
    IN  IF \E i \in DOMAIN items : hit(i)
        THEN items[CHOOSE i \in DOMAIN items : hit(i) /\ \A j \in 1..(i - 1) : ~hit(j)]
        ELSE items[Len(items)]

\* wrapper.format(payload=mutated_core)
format_wrapper(wrapper, mutated_core) == wrapper.prefix \o mutated_core \o wrapper.suffix

Call(name, result) == [name |-> name, result |-> result]

(***************************************************************************)
(* build_core_from_seed (generator.py): parse the seed against the         *)
(* structures, look for a strong wrapper, or generate from the grammar.    *)
(***************************************************************************)
\* _canonicalize_for_match(s): carets out, whitespace collapsed and trimmed,
\* case kept
canonicalize_for_match(s) == strip(collapse_spaces(remove_char(s, "^")))

\* text.startswith(prefix) from position pos on, ignoring case
matches_at(text, pos, tok) ==
    /\ pos + Len(tok) - 1 <= Len(text)
    /\ \A k \in 1..Len(tok) : lower_char(text[pos + k - 1]) = lower_char(tok[k])

\* tok.startswith("<") and tok.endswith(">")
is_placeholder(tok) == tok # <<>> /\ tok[1] = "<" /\ tok[Len(tok)] = ">"

RECURSIVE nonspace_run(_, _)
\* the number of non-whitespace characters of text from position pos on
nonspace_run(text, pos) ==
    IF pos > Len(text) \/ text[pos] \in Whitespace THEN 0
    ELSE 1 + nonspace_run(text, pos + 1)

NoMatch == [ok |-> FALSE, groups |-> <<>>]

RECURSIVE match_steps(_, _, _, _, _)
RECURSIVE match_alternatives(_, _, _, _, _, _)
RECURSIVE match_nonspace(_, _, _, _, _, _)

\* re.match("^" + parts + "$", seed, re.IGNORECASE) from step k at position
\* pos: whether the rest matches, and the text of the groups of the first
\* match in the order a backtracking matcher finds it
match_steps(g, seed, structure, k, pos) ==
    IF k > Len(structure) THEN [ok |-> pos = Len(seed) + 1, groups |-> <<>>]
    ELSE IF structure[k].type = "choose"
         THEN match_alternatives(g, seed, structure, k, pos, 1)
         ELSE IF matches_at(seed, pos, structure[k].tok)
              THEN match_steps(g, seed, structure, k + 1, pos + Len(structure[k].tok))
              ELSE NoMatch

\* the group of a choose step: its alternatives are tried in the order of the
\* terminal pool
match_alternatives(g, seed, structure, k, pos, j) ==
    LET terminals == g.terminals[structure[k].from]
    IN  IF j > Len(terminals) THEN NoMatch
        ELSE LET tok == terminals[j].tok
                 here == IF is_placeholder(tok)
                         THEN match_nonspace(g, seed, structure, k, pos,
                                             nonspace_run(seed, pos))
                         ELSE IF matches_at(seed, pos, tok)
                              THEN LET rest == match_steps(g, seed, structure, k + 1,
                                                           pos + Len(tok))
                                   IN  IF rest.ok
                                       THEN [ok |-> TRUE,
                                             groups |-> <<SubSeq(seed, pos, pos + Len(tok) - 1)>>
                                                        \o rest.groups]
                                       ELSE NoMatch
                              ELSE NoMatch
             IN  IF here.ok THEN here
                 ELSE match_alternatives(g, seed, structure, k, pos, j + 1)

\* the alternative \S+ of a placeholder token: the longest run first
match_nonspace(g, seed, structure, k, pos, len) ==
    IF len < 1 THEN NoMatch
    ELSE LET rest == match_steps(g, seed, structure, k + 1, pos + len)
         IN  IF rest.ok
             THEN [ok |-> TRUE,
                   groups |-> <<SubSeq(seed, pos, pos + len - 1)>> \o rest.groups]
             ELSE match_nonspace(g, seed, structure, k, pos, len - 1)

RECURSIVE rebuild(_, _, _)
\* "".join(canonical_parts): the matched text for choose, the token for
\* literal and sep
rebuild(structure, k, captured) ==
    IF k > Len(structure) THEN <<>>
    ELSE IF structure[k].type = "choose"
         THEN Head(captured) \o rebuild(structure, k + 1, Tail(captured))
         ELSE structure[k].tok \o rebuild(structure, k + 1, captured)

\* _matches_constraints(payload): keywords as written, case-sensitive, then the
\* regex ignoring case, on the string with carets and extra whitespace removed
matches_constraints(g, payload) ==
    LET canon == canonicalize_for_match(payload)
    IN  /\ \A kw \in Range(g.constraints.must_contain_keyword) : contains(canon, kw)
        /\ \A kw \in Range(g.constraints.must_contain_all) : contains(canon, kw)
        /\ g.constraints.regex_positive # NoRegex =>
               re_search(g.constraints.regex_positive, canon)

NoParse == [ok |-> FALSE, canonical |-> <<>>]

StepTypes == {"choose", "literal", "sep"}

\* plausible slip: the rebuilt string is returned without _matches_constraints
try_parse_with_structure_unchecked(g, seed, structure) ==
    IF \E k \in DOMAIN structure : structure[k].type \notin StepTypes THEN NoParse
    ELSE LET m == match_steps(g, seed, structure, 1, 1)
         IN  IF m.ok
             THEN [ok |-> TRUE,
                   canonical |-> canonicalize_for_match(rebuild(structure, 1, m.groups))]
             ELSE NoParse

\* _try_parse_with_structure(seed, structure)
try_parse_with_structure(g, seed, structure) ==
    IF \E k \in DOMAIN structure : structure[k].type \notin StepTypes THEN NoParse
    ELSE LET m == match_steps(g, seed, structure, 1, 1)
             canonical == canonicalize_for_match(rebuild(structure, 1, m.groups))
         IN  IF m.ok /\ matches_constraints(g, canonical)
             THEN [ok |-> TRUE, canonical |-> canonical]
             ELSE NoParse

\* _parse_seed_to_canonical(seed): the first structure that gives a non-empty
\* canonical string
parse_seed_to_canonical(g, seed) ==
    LET parsed(i) == try_parse_with_structure(g, seed, g.structures[i])
        good(i) == parsed(i).ok /\ parsed(i).canonical # <<>>
    IN  IF \E i \in DOMAIN g.structures : good(i)
        THEN parsed(CHOOSE i \in DOMAIN g.structures :
                        good(i) /\ \A j \in 1..(i - 1) : ~good(j))
        ELSE NoParse

strong_wrappers ==
    {<<"c", "m", "d", ".", "e", "x", "e", " ", "/", "c">>, <<"c", "m", "d", " ", "/", "c">>, <<"e", "c", "h", "o", " ">>, <<"|">>, <<"&", "&">>, <<"&", ":", ":">>}

\* _has_strong_wrapper(seed)
has_strong_wrapper(seed) ==
    \/ \E w \in strong_wrappers : contains(lower(seed), w)
    \/ seed # <<>> /\ seed[1] = "\"" /\ seed[Len(seed)] = "\""

MAX_RETRIES == 10

PlaceholderValue == <<"p", "l", "a", "c", "e", "h", "o", "l", "d", "e", "r", "_", "v", "a", "l", "u", "e">>

\* the token a step contributes to a candidate; d.u is the draw of
\* pick_weighted and d.c the draw of rng.choice
sample_step(g, step, d) ==
    IF step.type = "choose"
    THEN LET terminals == g.terminals[step.from]
         IN  IF terminals[1].examples # <<>> THEN choice(terminals[1].examples, d.c)
             ELSE LET tok == pick_weighted(terminals, d.u).tok
                      real_tokens == SelectSeq(terminals,
                                               LAMBDA t : t.tok = <<>> \/ t.tok[1] # "<")
                  IN  IF is_placeholder(tok)
                      THEN IF real_tokens # <<>> THEN choice(real_tokens, d.c).tok
                           ELSE PlaceholderValue
                      ELSE tok
    ELSE step.tok

RECURSIVE sample_parts(_, _, _, _)
sample_parts(g, structure, k, d) ==
    IF k > Len(structure) THEN <<>>
    ELSE sample_step(g, structure[k], d) \o sample_parts(g, structure, k + 1, d)

\* the candidate of one attempt, sampled from the first structure
candidate(g, d) == canonicalize_for_match(sample_parts(g, g.structures[1], 1, d))

\* plausible slip: the first candidate is returned unchecked
generate_canonical_from_grammar_unchecked(g, draws, attempt) == candidate(g, draws[attempt])

RECURSIVE generate_canonical_from_grammar(_, _, _)
\* _generate_canonical_from_grammar() from the given attempt on, draws[i]
\* being the random draws of attempt i
generate_canonical_from_grammar(g, draws, attempt) ==
    LET c == candidate(g, draws[attempt])
    IN  IF matches_constraints(g, c) THEN c
        ELSE IF attempt = MAX_RETRIES THEN c
        ELSE generate_canonical_from_grammar(g, draws, attempt + 1)

\* plausible slip: the loop gives up after the first candidate
retry_loop_single_attempt(g, draws, attempt) ==
    [attempts |-> attempt,
     warned |-> ~matches_constraints(g, candidate(g, draws[attempt]))]

RECURSIVE retry_loop(_, _, _)
\* "for attempt in range(MAX_RETRIES)" of _generate_canonical_from_grammar
\* from the given attempt on: the number of candidates sampled when the
\* method returns, and whether it printed the warning of lines 336-338
retry_loop(g, draws, attempt) ==
    IF matches_constraints(g, candidate(g, draws[attempt]))
    THEN [attempts |-> attempt, warned |-> FALSE]
    ELSE IF attempt = MAX_RETRIES THEN [attempts |-> attempt, warned |-> TRUE]
    ELSE retry_loop(g, draws, attempt + 1)

\* plausible slip: a seed that parses is returned in canonical form even when
\* it carries a strong wrapper
build_core_from_seed_parse_first(g, seed, draws) ==
    LET seed_norm == canonicalize_for_match(seed)
        parsed == parse_seed_to_canonical(g, seed_norm)
    IN  IF parsed.ok THEN [core |-> parsed.canonical, mode |-> "canonical"]
        ELSE IF has_strong_wrapper(seed_norm) THEN [core |-> seed, mode |-> "override"]
        ELSE [core |-> generate_canonical_from_grammar(g, draws, 1), mode |-> "fallback"]

\* build_core_from_seed(seed)
build_core_from_seed(g, seed, draws) ==
    LET seed_norm == canonicalize_for_match(seed)
        parsed == parse_seed_to_canonical(g, seed_norm)
    IN  IF parsed.ok
        THEN IF has_strong_wrapper(seed_norm)
             THEN [core |-> seed, mode |-> "override"]
             ELSE [core |-> parsed.canonical, mode |-> "canonical"]
        ELSE IF has_strong_wrapper(seed_norm) THEN [core |-> seed, mode |-> "override"]
        ELSE [core |-> generate_canonical_from_grammar(g, draws, 1), mode |-> "fallback"]

(***************************************************************************)
(* OperatorRegistry (operator_registry.py): the named evasion techniques   *)
(* and apply_operator.                                                     *)
(***************************************************************************)
\* old occurs in s at position i, case as written
occurs_at(s, i, old) ==
    /\ i + Len(old) - 1 <= Len(s)
    /\ \A k \in 1..Len(old) : s[i + k - 1] = old[k]

RECURSIVE replace_from(_, _, _, _)
\* s.replace(old, new) from position i on: every occurrence of old, left to
\* right and without overlap (old is not empty)
replace_from(s, i, old, new) ==
    IF i > Len(s) THEN <<>>
    ELSE IF occurs_at(s, i, old) THEN new \o replace_from(s, i + Len(old), old, new)
    ELSE <<s[i]>> \o replace_from(s, i + 1, old, new)

\* s.replace(old, new)
replace(s, old, new) == replace_from(s, 1, old, new)

\* the executables of _apply_omission, in the order of the list
omission_executables ==
    <<<<"s", "c", "h", "t", "a", "s", "k", "s", ".", "e", "x", "e">>, <<"n", "e", "t", ".", "e", "x", "e">>, <<"s", "c", ".", "e", "x", "e">>, <<"p", "o", "w", "e", "r", "s", "h", "e", "l", "l", ".", "e", "x", "e">>,
      <<"c", "m", "d", ".", "e", "x", "e">>, <<"w", "m", "i", "c", ".", "e", "x", "e">>, <<"c", "s", "c", "r", "i", "p", "t", ".", "e", "x", "e">>>>

DotExe == <<".", "e", "x", "e">>

\* OperatorRegistry._apply_omission(payload): the first executable of the list
\* that the lower-cased payload contains is replaced, as written, by its name
\* without ".exe"; the other executables are left alone
apply_omission(payload) ==
    LET found(i) == contains(lower(payload), omission_executables[i])
    IN  IF \E i \in DOMAIN omission_executables : found(i)
        THEN LET i == CHOOSE i \in DOMAIN omission_executables :
                          found(i) /\ \A j \in 1..(i - 1) : ~found(j)
                 exe == omission_executables[i]
             IN  replace(payload, exe, replace(exe, DotExe, <<>>))
        ELSE payload

\* the keywords of _apply_insertion, in the order of the list
insertion_keywords == <<<<"c", "r", "e", "a", "t", "e">>, <<"s", "t", "a", "r", "t">>, <<"s", "t", "o", "p">>, <<"d", "e", "l", "e", "t", "e">>, <<"c", "o", "n", "f", "i", "g">>>>

\* the three replacements of _apply_insertion for a keyword
insertion_patterns(kw) ==
    <<<<"/", "\"">> \o kw \o <<"\"">>,
      <<"/">> \o <<kw[1]>> \o <<"\"", "\"">> \o Tail(kw),
      <<" ", " ">> \o kw>>

\* OperatorRegistry._apply_insertion(payload), c being the pattern that
\* rng.choice picks: the first keyword of the list that the lower-cased payload
\* contains is replaced, as written, by the pattern
apply_insertion(payload, c) ==
    LET found(i) == contains(lower(payload), insertion_keywords[i])
    IN  IF \E i \in DOMAIN insertion_keywords : found(i)
        THEN LET i == CHOOSE i \in DOMAIN insertion_keywords :
                          found(i) /\ \A j \in 1..(i - 1) : ~found(j)
                 kw == insertion_keywords[i]
             IN  replace(payload, kw, insertion_patterns(kw)[c])
        ELSE payload

\* the substitutions of _apply_substitution, in the order of the dict
substitutions ==
    <<[short |-> <<"-", "O">>, long |-> <<"-", "-", "r", "e", "m", "o", "t", "e", "-", "n", "a", "m", "e">>],
      [short |-> <<"-", "o">>, long |-> <<"-", "-", "o", "u", "t", "p", "u", "t">>],
      [short |-> <<"-", "e", "p">>, long |-> <<"-", "E", "x", "e", "c", "u", "t", "i", "o", "n", "P", "o", "l", "i", "c", "y">>],
      [short |-> <<"-", "e", "n", "c">>, long |-> <<"-", "E", "n", "c", "o", "d", "e", "d", "C", "o", "m", "m", "a", "n", "d">>],
      [short |-> <<"-", "w">>, long |-> <<"-", "W", "i", "n", "d", "o", "w", "S", "t", "y", "l", "e">>],
      [short |-> <<"-", "n", "o", "p">>, long |-> <<"-", "N", "o", "P", "r", "o", "f", "i", "l", "e">>]>>

\* OperatorRegistry._apply_substitution(payload)
apply_substitution(payload) ==
    LET found(i) == contains(payload, substitutions[i].short)
    IN  IF \E i \in DOMAIN substitutions : found(i)
        THEN LET i == CHOOSE i \in DOMAIN substitutions :
                          found(i) /\ \A j \in 1..(i - 1) : ~found(j)
             IN  replace(payload, substitutions[i].short, substitutions[i].long)
        ELSE payload

RECURSIVE split_words(_, _)
\* payload.split(): the maximal runs of non-whitespace, cur being the run read
split_words(x, cur) ==
    IF x = <<>> THEN (IF cur = <<>> THEN <<>> ELSE <<cur>>)
    ELSE IF Head(x) \in Whitespace
         THEN (IF cur = <<>> THEN <<>> ELSE <<cur>>) \o split_words(Tail(x), <<>>)
         ELSE split_words(Tail(x), Append(cur, Head(x)))

RECURSIVE join_words(_)
\* " ".join(parts)
join_words(parts) ==
    IF parts = <<>> THEN <<>>
    ELSE IF Len(parts) = 1 THEN parts[1]
    ELSE parts[1] \o <<" ">> \o join_words(Tail(parts))

\* p.startswith('-') or p.startswith('/')
is_flag(p) == p[1] = "-" \/ p[1] = "/"

\* the flags of a payload, as _apply_reordering collects them
flags_of(payload) == SelectSeq(split_words(payload, <<>>), is_flag)

\* OperatorRegistry._apply_reordering(payload), c being the flag that
\* rng.choice picks: with a flag and more than two other words, the first
\* word equal to the chosen flag moves to the end
apply_reordering(payload, c) ==
    LET parts == split_words(payload, <<>>)
        flags == SelectSeq(parts, is_flag)
        non_flags == SelectSeq(parts, LAMBDA p : ~is_flag(p))
    IN  IF flags # <<>> /\ Len(non_flags) > 2
        THEN LET flag_to_move == flags[c]
                 k == CHOOSE k \in DOMAIN parts :
                          parts[k] = flag_to_move /\ \A j \in 1..(k - 1) : parts[j] # flag_to_move
             IN  join_words(SubSeq(parts, 1, k - 1) \o SubSeq(parts, k + 1, Len(parts))
                            \o <<flag_to_move>>)
        ELSE payload

\* the techniques apply_mutations chooses from, in the order of its list
technique_names == <<"insertion", "substitution", "omission", "reordering", "recoding">>

\* the number of alternatives rng.choice has inside a technique
technique_choices(technique, payload) ==
    IF technique = "insertion"
    THEN (IF \E i \in DOMAIN insertion_keywords :
                 contains(lower(payload), insertion_keywords[i]) THEN 3 ELSE 1)
    ELSE IF technique = "reordering"
    THEN (IF flags_of(payload) # <<>>
             /\ Len(split_words(payload, <<>>)) - Len(flags_of(payload)) > 2
          THEN Len(flags_of(payload)) ELSE 1)
    ELSE 1

RECURSIVE digit_run(_, _)
\* the number of digits of s from position i on
digit_run(s, i) ==
    IF i > Len(s) \/ s[i] \notin Digits THEN 0 ELSE 1 + digit_run(s, i + 1)

RECURSIVE ip_end(_, _, _)
\* \d{1,3}\.\d{1,3}\.\d{1,3}\.\d{1,3}\b from group g on, the group starting
\* at position i: the position after the match, or 0.  A group is a whole run
\* of one to three digits: a shorter part of a run is followed by a digit,
\* which is neither the dot nor a word boundary.
ip_end(s, i, g) ==
    LET r == digit_run(s, i)
    IN  IF r \notin 1..3 THEN 0
        ELSE IF g = 4
             THEN IF i + r > Len(s) \/ ~is_word_char(s[i + r]) THEN i + r ELSE 0
             ELSE IF i + r <= Len(s) /\ s[i + r] = "." THEN ip_end(s, i + r + 1, g + 1)
             ELSE 0

\* ip_pattern matches at position i: the position after the match, or 0
ip_match_end(s, i) ==
    IF i = 1 \/ ~is_word_char(s[i - 1]) THEN ip_end(s, i, 1) ELSE 0

NoAddress == [found |-> FALSE, from |-> 0, to |-> 0]

\* the first match of re.findall(ip_pattern, payload)
first_ip(s) ==
    IF \E i \in DOMAIN s : ip_match_end(s, i) # 0
    THEN LET i == CHOOSE i \in DOMAIN s :
                      ip_match_end(s, i) # 0 /\ \A j \in 1..(i - 1) : ip_match_end(s, j) = 0
         IN  [found |-> TRUE, from |-> i, to |-> ip_match_end(s, i) - 1]
    ELSE NoAddress

DigitChars == <<"0", "1", "2", "3", "4", "5", "6", "7", "8", "9">>

digit_value(c) == (CHOOSE d \in DOMAIN DigitChars : DigitChars[d] = c) - 1

RECURSIVE int_of(_, _)
\* int(x) for a string of digits, acc being the value of the digits read
int_of(x, acc) == IF x = <<>> THEN acc ELSE int_of(Tail(x), 10 * acc + digit_value(Head(x)))

RECURSIVE split_dots(_, _)
\* ip.split('.'), cur being the piece read so far
split_dots(x, cur) ==
    IF x = <<>> THEN <<cur>>
    ELSE IF Head(x) = "." THEN <<cur>> \o split_dots(Tail(x), <<>>)
    ELSE split_dots(Tail(x), Append(cur, Head(x)))

\* [int(x) for x in ip.split('.')]
octets_of(ip) == LET parts == split_dots(ip, <<>>) IN [k \in DOMAIN parts |-> int_of(parts[k], 0)]

(***************************************************************************)
(* Python's integers are unbounded: a value is kept as its decimal digits, *)
(* least significant first.                                                *)
(***************************************************************************)
RECURSIVE big_of(_)
big_of(k) == IF k = 0 THEN <<>> ELSE <<k % 10>> \o big_of(k \div 10)

RECURSIVE big_scale(_, _, _)
\* a * m + carry
big_scale(a, m, carry) ==
    IF a = <<>> THEN big_of(carry)
    ELSE LET v == a[1] * m + carry IN <<v % 10>> \o big_scale(Tail(a), m, v \div 10)

RECURSIVE big_add(_, _, _)
\* a + b + carry
big_add(a, b, carry) ==
    IF a = <<>> /\ b = <<>> THEN big_of(carry)
    ELSE LET v == (IF a = <<>> THEN 0 ELSE a[1]) + (IF b = <<>> THEN 0 ELSE b[1]) + carry
         IN  <<v % 10>> \o big_add(IF a = <<>> THEN <<>> ELSE Tail(a),
                                   IF b = <<>> THEN <<>> ELSE Tail(b), v \div 10)

\* k << bits
shift_left(k, bits) == big_scale(big_of(k), 2 ^ bits, 0)

\* str(value)
big_str(a) == IF a = <<>> THEN <<"0">> ELSE [k \in 1..Len(a) |-> DigitChars[a[Len(a) - k + 1] + 1]]

\* (octets[0] << 24) + (octets[1] << 16) + (octets[2] << 8) + octets[3]
ip_decimal(octets) ==
    big_add(big_add(big_add(shift_left(octets[1], 24), shift_left(octets[2], 16), 0),
                    shift_left(octets[3], 8), 0),
            big_of(octets[4]), 0)

\* OperatorRegistry._apply_recoding(payload): the text of the first match is
\* replaced, wherever the payload has it, by the decimal value
apply_recoding(payload) ==
    LET m == first_ip(payload)
        ip == SubSeq(payload, m.from, m.to)
    IN  IF m.found THEN replace(payload, ip, big_str(ip_decimal(octets_of(ip)))) ELSE payload

\* OperatorRegistry._apply_evasion_technique(technique, payload), c being the
\* choice the technique draws
apply_evasion_technique(technique, payload, c) ==
    IF technique = "insertion" THEN apply_insertion(payload, c)
    ELSE IF technique = "substitution" THEN apply_substitution(payload)
    ELSE IF technique = "omission" THEN apply_omission(payload)
    ELSE IF technique = "reordering" THEN apply_reordering(payload, c)
    ELSE apply_recoding(payload)

(***************************************************************************)
(* apply_operator and apply_mutations (operator_registry.py, generator.py) *)
(***************************************************************************)
\* Python's None where a string is expected
NoneValue == <<"<None>">>

\* what a caller can hand to apply_operator as op_name: a name, or an
\* Operator object as choose_operator_from_group returns it
OpName(name) == [kind |-> "str", name |-> name, sample |-> <<>>]
OperatorObject(op) == [kind |-> "Operator", name |-> op.name, sample |-> op.sample]

\* OperatorRegistry.apply_operator(op_name, payload): a key of
\* evasion_techniques is dispatched to its technique; for anything else the
\* body ends without a return statement, so the call returns None.  An
\* Operator object is never equal to a key.
apply_operator(op, payload, c) ==
    IF op.kind = "str" /\ op.name \in Range(technique_names)
    THEN apply_evasion_technique(op.name, payload, c)
    ELSE NoneValue

\* quick_check(core) raises: with a keyword to look for, canonicalize_payload
\* calls core.replace on None (AttributeError)
quick_check_raises(g, core) == validator_keywords(g) # {} /\ core = NoneValue

\* the arms of the generator's bandit: the grammar's groups, then the five
\* evasion arms
arms_of(g) == groups \o evasion_techniques

\* g.startswith("evasion_"), the arms being the grammar's groups and the five
\* evasion arms
is_evasion_arm(arm) == arm \in Range(evasion_techniques)

ChainStep(arm, outcome) == [arm |-> arm, outcome |-> outcome]

RECURSIVE traditional_chain(_, _, _, _, _, _, _, _)
\* "for _ in range(k)" of apply_mutations from iteration i on: the arm is
\* selected; an evasion arm is skipped; otherwise an operator of the group is
\* chosen and applied and the result kept if quick_check accepts it.  trace
\* lists what happened to the arm of each iteration.
\* (new, like cur below, is bound as the member of a one-element set, so that
\* it is a value when the operators applied to it refer to it.)
traditional_chain(g, bq, cur, applied, trace, steps, i, k) ==
    IF i > k THEN [core |-> cur, applied |-> applied, error |-> "", trace |-> trace]
    ELSE LET arm == select_arm(arms_of(g), bq, g.sampling.epsilon_group,
                               steps[i].u, steps[i].c)
         IN  IF is_evasion_arm(arm)
             THEN traditional_chain(g, bq, cur, applied,
                                    Append(trace, ChainStep(arm, "skipped")), steps, i + 1, k)
             ELSE CHOOSE result \in
                      {IF quick_check_raises(g, new)
                       THEN [core |-> cur, applied |-> applied, error |-> "AttributeError",
                             trace |-> Append(trace, ChainStep(arm, "raised"))]
                       ELSE IF ~quick_check(g, new)
                       THEN traditional_chain(g, bq, cur, applied,
                                              Append(trace, ChainStep(arm, "rejected")),
                                              steps, i + 1, k)
                       ELSE traditional_chain(g, bq, new, Append(applied, arm),
                                              Append(trace, ChainStep(arm, "kept")),
                                              steps, i + 1, k) :
                          new \in {apply_operator(
                                       OperatorObject(choice(g.obfuscation_groups[arm],
                                                             steps[i].op)), cur, 1)}} : TRUE

EvasionChance == <<1, 2>>       \* "if self.rng.random() < 0.5"

\* apply_mutations(core) of a generator built with use_llm = False, the
\* bandit's values being bq and d the draws: d.evasion.u for the coin,
\* d.evasion.technique and d.evasion.c for the technique and its own choice,
\* d.k for randint(1, max_mut), d.steps[i] for iteration i.  The result
\* carries the technique applied first ("" if none) and the trace of the chain.
apply_mutations(g, core, bq, d) ==
    LET evade == RLt(d.evasion.u, EvasionChance)
        technique == IF evade THEN technique_names[d.evasion.technique] ELSE ""
        applied == IF evade THEN <<evasion_techniques[d.evasion.technique]>> ELSE <<>>
    IN  CHOOSE result \in
            UNION {{[core |-> chain.core, applied |-> chain.applied, error |-> chain.error,
                     trace |-> chain.trace, technique |-> technique, evaded |-> cur] :
                        chain \in {traditional_chain(g, bq, cur, applied, <<>>, d.steps, 1, d.k)}} :
                   cur \in {IF evade THEN apply_evasion_technique(technique, core, d.evasion.c)
                            ELSE core}} : TRUE

\* str(core), as wrapper.format(payload=core) inserts it
str_of(core) == IF core = NoneValue THEN <<"N", "o", "n", "e">> ELSE core

\* plausible slip: the detector is queried for every valid payload, executed
\* successfully or not
score_payload_unnested(valid_syntax, exec_answer, siem_answer) ==
    IF valid_syntax
    THEN [exec_success |-> exec_answer, detected |-> siem_answer.detected,
          similarity |-> siem_answer.similarity,
          calls |-> <<Call("full_check", TRUE), Call("execute", exec_answer),
                      Call("analyze", siem_answer.detected)>>]
    ELSE [exec_success |-> FALSE, detected |-> FALSE, similarity |-> <<0, 1>>,
          calls |-> <<Call("full_check", FALSE)>>]

\* steps 2 to 4 of generate_one, given the verdict of full_check and what the
\* executor and the detector would answer: the payload is executed only if
\* valid, the detector asked only if the execution succeeded.  calls lists the
\* collaborator calls made, in order, with their results.
score_payload(valid_syntax, exec_answer, siem_answer) ==
    IF valid_syntax
    THEN IF exec_answer
         THEN [exec_success |-> TRUE, detected |-> siem_answer.detected,
               similarity |-> siem_answer.similarity,
               calls |-> <<Call("full_check", TRUE), Call("execute", TRUE),
                           Call("analyze", siem_answer.detected)>>]
         ELSE [exec_success |-> FALSE, detected |-> FALSE, similarity |-> <<0, 1>>,
               calls |-> <<Call("full_check", TRUE), Call("execute", FALSE)>>]
    ELSE [exec_success |-> FALSE, detected |-> FALSE, similarity |-> <<0, 1>>,
          calls |-> <<Call("full_check", FALSE)>>]

\* plausible slip: promotion looks at the detector's verdict only
promoted_if_undetected(exec_success, detected) == ~detected

\* "if exec_success and (not detected)": the payload is saved and the seed boosted
promoted(exec_success, detected) == exec_success /\ ~detected

\* plausible slip: every arm of the bandit is updated, applied or not
update_applied_all_arms(bq, bn, todo, reward) ==
    [q |-> [a \in DOMAIN bq |-> update(bq, bn, a, reward).q[a]],
     n |-> [a \in DOMAIN bn |-> bn[a] + 1]]

RECURSIVE update_applied(_, _, _, _)
\* "for g in set(applied)": one update per distinct applied arm the bandit knows
update_applied(bq, bn, todo, reward) ==
    IF todo = {} THEN [q |-> bq, n |-> bn]
    ELSE LET g == CHOOSE g \in todo : TRUE
             next == IF g \in DOMAIN bq THEN update(bq, bn, g, reward)
                     ELSE [q |-> bq, n |-> bn]
         IN  update_applied(next.q, next.n, todo \ {g}, reward)

GenerationBoost == <<1, 2>>     \* boost_seed(seed.id, boost_scale=0.5)
Novelty == <<1, 1>>             \* novelty = 1.0

\* the seed store after steps 6 and 7 of generate_one
seeds_after_generation(ss, seed_id, reward, promote) ==
    LET updated == update_seed(ss, seed_id, reward).seeds
    IN  IF promote THEN boost_seed(updated, seed_id, GenerationBoost).seeds ELSE updated

\* plausible slip: the canonical form of the payload is saved
corpus_entry_canonical(payload, mutated_core) == canonicalize_payload(payload)

\* what generate_one appends to corpus_successful
corpus_entry(payload, mutated_core) == payload

\* steps 5 to 7 of generate_one and its return value, given the selected seed,
\* the mutation outcome, the payload and the outcome of steps 2 to 4
FinishGeneration(sel, mutation, payload, valid_syntax, score) ==
    \E reward \in {compute(default_weights, score.detected, score.similarity, Novelty,
                            ~valid_syntax \/ ~score.exec_success)} :
    \E bandit \in {update_applied(q, n, Range(mutation.applied), reward)} :
    LET seed == seeds[sel.index]
        promote == promoted(score.exec_success, score.detected)
        rec == [payload |-> payload, valid |-> valid_syntax /\ score.exec_success,
                detected |-> score.detected, similarity |-> score.similarity,
                reward |-> reward, seed_id |-> seed.id,
                applied_groups |-> mutation.applied, core |-> mutation.core]
    IN  /\ seeds' = seeds_after_generation(seeds, seed.id, reward, promote)
        /\ store_draws' = store_draws + sel.draws
        /\ store_ret' = StoreRet(IF promote THEN "boost_seed" ELSE "update_seed", seed.id,
                                 IF promote THEN GenerationBoost ELSE reward,
                                 first_with_id(seeds, seed.id), "", 0)
        /\ q' = bandit.q
        /\ n' = bandit.n
        /\ applied_rewards' =
               [a \in DOMAIN applied_rewards |->
                    IF a \in Range(mutation.applied) THEN Append(applied_rewards[a], reward)
                    ELSE applied_rewards[a]]
        /\ bandit_ret' = bandit_ret
        /\ corpus_successful' =
               IF promote THEN Append(corpus_successful, corpus_entry(payload, mutation.core))
               ELSE corpus_successful
        /\ corpus_origin' =
               IF promote THEN Append(corpus_origin, [record |-> rec, calls |-> score.calls])
               ELSE corpus_origin
        /\ calls' = score.calls
        /\ record' = rec
        /\ ops' = ops + 1

\* the draws of apply_mutations in a run: the first stage applies nothing or
\* the insertion technique with its second or third pattern; the chain runs
\* one iteration, exploring (the group or the first evasion arm coming out)
\* or exploiting, or two, the first evasion arm coming out before the group
GenerationDraws ==
    {[evasion |-> e, k |-> ch.k, steps |-> ch.steps] :
        e \in {[u |-> EvasionChance, technique |-> 1, c |-> 1],
               [u |-> <<0, 1>>, technique |-> 1, c |-> 2],
               [u |-> <<0, 1>>, technique |-> 1, c |-> 3]},
        ch \in {[k |-> 1, steps |-> [i \in 1..grammar.mutation_engine.max_mutations |-> step]] :
                    step \in {[u |-> <<0, 1>>, c |-> 1, op |-> 1],
                              [u |-> <<0, 1>>, c |-> 2, op |-> 1],
                              [u |-> <<1, 2>>, c |-> 1, op |-> 1]}}
               \cup {[k |-> grammar.mutation_engine.max_mutations,
                      steps |-> [i \in 1..grammar.mutation_engine.max_mutations |->
                                    [u |-> <<0, 1>>, c |-> IF i = 1 THEN 2 ELSE 1, op |-> 2]]]}}

\* the draws of the fallback of build_core_from_seed, which the seeds of a run
\* never reach: they all parse
GenerationFallbackDraws == [i \in 1..MAX_RETRIES |-> [u |-> <<0, 1>>, c |-> 1]]

\* build_core_from_seed(seed.string) for the seeds of a run (evaluated once
\* per seed string)
core_of ==
    [s \in Range(SeedStrings) |-> build_core_from_seed(grammar, s, GenerationFallbackDraws).core]

\* the payloads generate_one can assemble, with the verdict of full_check and
\* the detector's result for each (evaluated once per payload).  With a
\* required keyword the chain keeps nothing, so a mutated core is the core
\* after the first stage.
MutatedCores ==
    Range(core_of)
    \cup {apply_evasion_technique(technique_names[d.evasion.technique], core, d.evasion.c) :
              d \in GenerationDraws, core \in Range(core_of)}
Payloads ==
    {format_wrapper(wrapper, core) : wrapper \in Range(grammar.wrappers), core \in MutatedCores}
valid_syntax_of ==
    [p \in Payloads |-> full_check(grammar, p, grammar.meta.max_payload_len)]
siem_res_of == [p \in Payloads |-> [answers \in QueryAnswers |-> analyze(p, answers)]]
NoAnswers == [i \in 1..QueryAttempts |-> "miss"]

\* the draws of generate_one: one below epsilon_seed and one above it for the
\* seed, one for each wrapper of the grammar
SeedDraws == {<<0, 1>>, <<1, 2>>}
WrapperDraws == {<<0, 1>>, <<99, 100>>}

\* generate_one on a store with seeds, when apply_mutations returns.  The
\* executor's and the detector's answers are drawn only where generate_one can
\* come to ask for them.
generate_one ==
    /\ ops < MaxGenerations
    /\ \E d \in GenerationDraws, u \in SeedDraws :
        \E c \in (IF RLt(u, grammar.sampling.epsilon_seed) THEN DOMAIN seeds ELSE {1}) :
            \E sel \in {select_seed_epsilon(seeds, grammar.sampling.epsilon_seed, u, c)} :
                /\ sel.error = ""
                /\ \E core \in {core_of[seeds[sel.index].string]} :
                   \E mutation \in {apply_mutations(grammar, core, q, d)} :
                       /\ mutation.error = ""
                       /\ \E uw \in WrapperDraws :
                          \E payload \in {format_wrapper(pick_weighted(grammar.wrappers, uw),
                                                         str_of(mutation.core))} :
                          \E valid_syntax \in {valid_syntax_of[payload]} :
                          \E exec_answer \in (IF valid_syntax THEN BOOLEAN ELSE {FALSE}) :
                          \E answers \in (IF exec_answer THEN QueryAnswers ELSE {NoAnswers}) :
                              FinishGeneration(sel, mutation, payload, valid_syntax,
                                  score_payload(valid_syntax, exec_answer,
                                                siem_res_of[payload][answers]))

\* generate_one on a store with seeds, when the chain of apply_mutations
\* selects a group: quick_check raises on the None that apply_operator
\* returned and the error leaves generate_one after the seed was selected,
\* before any update
generate_one_raises ==
    \E d \in GenerationDraws, u \in SeedDraws :
        \E c \in (IF RLt(u, grammar.sampling.epsilon_seed) THEN DOMAIN seeds ELSE {1}) :
            \E sel \in {select_seed_epsilon(seeds, grammar.sampling.epsilon_seed, u, c)} :
                /\ ops < MaxGenerations
                /\ sel.error = ""
                /\ \E core \in {core_of[seeds[sel.index].string]} :
                       apply_mutations(grammar, core, q, d).error # ""
                /\ store_ret' = StoreRet("select_seed_epsilon", seeds[sel.index].id,
                                         grammar.sampling.epsilon_seed, sel.index,
                                         "AttributeError", sel.draws)
                /\ store_draws' = store_draws + sel.draws
                /\ calls' = <<>>
                /\ record' = NoRecord
                /\ ops' = ops + 1
                /\ UNCHANGED <<seeds, bandit_vars, corpus_successful, corpus_origin>>

\* generate_one on an empty store: select_seed_epsilon raises and the error
\* leaves generate_one before anything else happens
generate_one_no_seeds ==
    LET sel == select_seed_epsilon(seeds, grammar.sampling.epsilon_seed, <<0, 1>>, 1)
    IN  /\ ops < MaxGenerations
        /\ sel.error # ""
        /\ store_ret' = StoreRet("select_seed_epsilon", "", grammar.sampling.epsilon_seed,
                                 sel.index, sel.error, sel.draws)
        /\ store_draws' = store_draws + sel.draws
        /\ calls' = <<>>
        /\ record' = NoRecord
        /\ ops' = ops + 1
        /\ UNCHANGED <<seeds, bandit_vars, corpus_successful, corpus_origin>>

\* one generate_one call of a run, in each of its three ways to end
GenerateOne == generate_one /\ UNCHANGED probe
GenerateOneRaises == generate_one_raises /\ UNCHANGED probe
GenerateOneNoSeeds == generate_one_no_seeds /\ UNCHANGED probe

\* PayloadGenerator.__init__
Init ==
    /\ \E custom_seeds \in GeneratorSeedInputs : seeds = seed_store_init(custom_seeds)
    /\ store_draws = 0
    /\ store_ret = StoreRet("init", "", <<0, 1>>, 0, "", 0)
    /\ q = bandit_init(all_arms, DefaultQ).q
    /\ n = bandit_init(all_arms, DefaultQ).n
    /\ bandit_ret = BanditRet("init", NoArm, <<0, 1>>, NoReward)
    /\ applied_rewards = [a \in Range(all_arms) |-> <<>>]
    /\ IdleRest

Next == GenerateOne \/ GenerateOneRaises \/ GenerateOneNoSeeds

Spec == Init /\ [][Next]_vars

MaxPayloadLen == grammar.meta.max_payload_len

\* C2: every entry of corpus_successful comes from a generation whose payload
\* passed full_check and which the detector, asked after a successful
\* execution, reported as not detected; no entry fails full_check.
CorpusOnlyValidUndetected ==
    /\ Len(corpus_origin) = Len(corpus_successful)
    /\ \A i \in DOMAIN corpus_successful :
           LET o == corpus_origin[i]
           IN  /\ full_check(grammar, o.record.payload, MaxPayloadLen)
               /\ full_check(grammar, corpus_successful[i], MaxPayloadLen)
               /\ o.calls[1] = Call("full_check", TRUE)
               /\ \E k \in DOMAIN o.calls : o.calls[k] = Call("analyze", FALSE)
               /\ o.record.valid /\ ~o.record.detected

\* a corpus that holds an entry while the last generation's payload failed
\* full_check
CorpusWitness ==
    /\ corpus_successful # <<>>
    /\ calls = <<Call("full_check", FALSE)>>

\* what a completed generate_one step does to the seed carrying the record's
\* seed id and to the corpus, with the corpus entry left open
GenerationStep(entry_ok(_, _)) ==
    (ops' = ops + 1 /\ record' # NoRecord) =>
        \E i \in {first_with_id(seeds, record'.seed_id)} :
        \E q_updated \in {RDivInt(RAdd(RMul(seeds[i].q_s, FromInt(seeds[i].n_s)),
                                       record'.reward),
                                  seeds[i].n_s + 1)} :
            /\ seeds'[i].n_s = seeds[i].n_s + 1
            /\ IF record'.valid /\ ~record'.detected
               THEN /\ Len(corpus_successful') = Len(corpus_successful) + 1
                    /\ SubSeq(corpus_successful', 1, Len(corpus_successful)) = corpus_successful
                    /\ entry_ok(corpus_successful'[Len(corpus_successful')], record')
                    /\ RSub(<<1, 1>>, seeds'[i].q_s) =
                           RMul(RSub(<<1, 1>>, q_updated), <<1, 2>>)
                    /\ RLt(q_updated, seeds'[i].q_s) /\ RLe(seeds'[i].q_s, <<1, 1>>)
                    /\ (seeds[i].n_s = 0 /\ seeds[i].q_s = DefaultQ)
                           => RLt(DefaultQ, seeds'[i].q_s)
               ELSE /\ corpus_successful' = corpus_successful
                    /\ seeds'[i].q_s = q_updated

CallOrder ==
    /\ Len(calls) <= 3
    /\ \A k \in DOMAIN calls : calls[k].name = <<"full_check", "execute", "analyze">>[k]
    /\ Len(calls) >= 2 => calls[1].result
    /\ Len(calls) = 3 => calls[2].result
    /\ (calls # <<>> /\ ~calls[1].result) => Len(calls) = 1
    /\ calls # <<>> =>
           calls[1].result = full_check(grammar, record.payload, MaxPayloadLen)

\* a generation that went through all three calls and was detected, after one
\* that stopped at a failed execution
CallOrderWitness ==
    /\ Len(calls) = 3 /\ calls[3].result
    /\ ops = 2

\* C38: of two generations of a run that follow each other, one valid (the
\* payload passed full_check and ran) and one invalid, the invalid one never
\* has the larger reward, whether the valid one was detected or not.
InvalidNeverRewardedMore ==
    [][(/\ ops' = ops + 1
        /\ record # NoRecord /\ record' # NoRecord
        /\ record.valid # record'.valid) =>
          IF record.valid THEN RLe(record'.reward, record.reward)
          ELSE RLe(record.reward, record'.reward)]_vars

(***************************************************************************)
(* run_batch(n) (generator.py): n generate_one calls in a row, the records  *)
(* collected in logs; an error of a call leaves run_batch at once.          *)
(***************************************************************************)
BatchInputs ==
    {[op |-> "run_batch", n |-> k, calls |-> 0, logs |-> <<>>, status |-> "running"] :
        k \in 0..MaxGenerations}

\* "r = self.generate_one(); logs.append(r)"
BatchGenerate ==
    /\ probe.op = "run_batch" /\ probe.status = "running" /\ probe.calls < probe.n
    /\ generate_one
    /\ probe' = [probe EXCEPT !.calls = @ + 1, !.logs = Append(@, record')]

\* generate_one raises on the empty store and run_batch with it
BatchRaisesNoSeeds ==
    /\ probe.op = "run_batch" /\ probe.status = "running" /\ probe.calls < probe.n
    /\ generate_one_no_seeds
    /\ probe' = [probe EXCEPT !.calls = @ + 1, !.status = "raised"]

\* generate_one raises out of apply_mutations and run_batch with it
BatchRaisesMutation ==
    /\ probe.op = "run_batch" /\ probe.status = "running" /\ probe.calls < probe.n
    /\ generate_one_raises
    /\ probe' = [probe EXCEPT !.calls = @ + 1, !.status = "raised"]

\* "return logs" after the loop
BatchReturn ==
    /\ probe.op = "run_batch" /\ probe.status = "running" /\ probe.calls = probe.n
    /\ probe' = [probe EXCEPT !.status = "returned"]
    /\ UNCHANGED <<bandit_vars, store_vars, generator_vars>>

\* gen = PayloadGenerator(grammar, custom_seeds); gen.run_batch(n)
InitBatch ==
    /\ \E custom_seeds \in GeneratorSeedInputs : seeds = seed_store_init(custom_seeds)
    /\ store_draws = 0
    /\ store_ret = StoreRet("init", "", <<0, 1>>, 0, "", 0)
    /\ q = bandit_init(all_arms, DefaultQ).q
    /\ n = bandit_init(all_arms, DefaultQ).n
    /\ bandit_ret = BanditRet("init", NoArm, <<0, 1>>, NoReward)
    /\ applied_rewards = [a \in Range(all_arms) |-> <<>>]
    /\ corpus_successful = <<>>
    /\ corpus_origin = <<>>
    /\ calls = <<>>
    /\ record = NoRecord
    /\ ops = 0
    /\ probe \in BatchInputs

NextBatch == BatchGenerate \/ BatchRaisesNoSeeds \/ BatchRaisesMutation \/ BatchReturn

SpecBatch == InitBatch /\ [][NextBatch]_vars

\* C25: a run_batch(n) that is over has returned, after exactly n generate_one
\* calls, the n records of those calls, each with a string for payload.
RunBatchReturnsAllRecords ==
    (probe.op = "run_batch" /\ probe.status # "running") =>
        /\ probe.status = "returned"
        /\ probe.calls = probe.n
        /\ Len(probe.logs) = probe.n
        /\ \A k \in DOMAIN probe.logs :
               probe.logs[k] # NoRecord /\ probe.logs[k].payload # NoneValue

(***************************************************************************)
(* Two generators side by side.  Every random draw comes from a generator   *)
(* seeded with a fixed number (generator.py:30-31, 49, 71), so two          *)
(* generators built alike see the same draws; what a run does not fix is    *)
(* the order in which "for g in set(applied)" visits the applied arms,      *)
(* which follows the hashes of the names and changes from process to        *)
(* process.                                                                 *)
(***************************************************************************)
\* the state of one generator and the records it returned
RunState(ss) ==
    [seeds |-> ss, q |-> bandit_init(all_arms, DefaultQ).q,
     n |-> bandit_init(all_arms, DefaultQ).n, corpus_successful |-> <<>>,
     records |-> <<>>, error |-> ""]

\* the orders a process can iterate a set of arm names in, as positions in a
\* list of all names
SetOrders == {all_arms, [i \in DOMAIN all_arms |-> all_arms[Len(all_arms) + 1 - i]]}

\* list(set(applied)) in a process with the given order
iteration_order(order, applied) == SelectSeq(order, LAMBDA a : a \in Range(applied))

\* plausible slip: only the first arm visited is updated
update_applied_first_only(bq, bn, todo, reward) ==
    IF todo = <<>> THEN [q |-> bq, n |-> bn]
    ELSE IF Head(todo) \in DOMAIN bq THEN update(bq, bn, Head(todo), reward)
    ELSE [q |-> bq, n |-> bn]

RECURSIVE update_applied_in_order(_, _, _, _)
\* "for g in set(applied): if g in self.op_bandit.arms: update(g, reward)",
\* the arms visited in the order of the sequence todo
update_applied_in_order(bq, bn, todo, reward) ==
    IF todo = <<>> THEN [q |-> bq, n |-> bn]
    ELSE LET next == IF Head(todo) \in DOMAIN bq THEN update(bq, bn, Head(todo), reward)
                     ELSE [q |-> bq, n |-> bn]
         IN  update_applied_in_order(next.q, next.n, Tail(todo), reward)

\* generate_one as a function of the generator's state st, the draws and the
\* collaborators' answers in, and the iteration order of the process
generation(g, st, in, order) ==
    LET sel == select_seed_epsilon(st.seeds, g.sampling.epsilon_seed, in.u, in.c)
    IN  IF sel.error # "" THEN [st EXCEPT !.error = sel.error]
        ELSE CHOOSE result \in
            {IF mutation.error # "" THEN [st EXCEPT !.error = mutation.error]
             ELSE LET seed == st.seeds[sel.index]
                      payload == format_wrapper(pick_weighted(g.wrappers, in.uw),
                                                str_of(mutation.core))
                      valid_syntax == full_check(g, payload, g.meta.max_payload_len)
                      score == score_payload(valid_syntax, in.exec_answer,
                                             analyze(payload, in.answers))
                      reward == compute(default_weights, score.detected, score.similarity,
                                        Novelty, ~valid_syntax \/ ~score.exec_success)
                      bandit == update_applied_in_order(
                                    st.q, st.n, iteration_order(order, mutation.applied), reward)
                      promote == promoted(score.exec_success, score.detected)
                      rec == [payload |-> payload, valid |-> valid_syntax /\ score.exec_success,
                              detected |-> score.detected, similarity |-> score.similarity,
                              reward |-> reward, seed_id |-> seed.id,
                              applied_groups |-> mutation.applied, core |-> mutation.core]
                  IN  [seeds |-> seeds_after_generation(st.seeds, seed.id, reward, promote),
                       q |-> bandit.q, n |-> bandit.n,
                       corpus_successful |->
                           IF promote
                           THEN Append(st.corpus_successful,
                                       corpus_entry(payload, mutation.core))
                           ELSE st.corpus_successful,
                       records |-> Append(st.records, rec), error |-> ""] :
                 mutation \in {apply_mutations(g, core_of[st.seeds[sel.index].string],
                                               st.q, in.d)}} : TRUE

\* the grammars of the two generators, by name
reproduce_grammar(name) == IF name = "keyword" THEN grammar ELSE grammar_no_keywords

\* the draws and answers of one generate_one call: the first stage applying
\* nothing or the insertion technique, the chain exploring (the group or an
\* evasion arm coming out) or exploiting
ReproduceDraws ==
    {[evasion |-> e, k |-> 1,
      steps |-> [i \in 1..grammar.mutation_engine.max_mutations |-> step]] :
        e \in {[u |-> EvasionChance, technique |-> 1, c |-> 1],
               [u |-> <<0, 1>>, technique |-> 1, c |-> 3]},
        step \in {[u |-> <<0, 1>>, c |-> 1, op |-> 1], [u |-> <<0, 1>>, c |-> 2, op |-> 1]}}

ReproduceAnswers ==
    {[exec_answer |-> FALSE, answers |-> [i \in 1..QueryAttempts |-> "miss"]],
     [exec_answer |-> TRUE, answers |-> [i \in 1..QueryAttempts |-> "miss"]],
     [exec_answer |-> TRUE,
      answers |-> [i \in 1..QueryAttempts |-> IF i = 1 THEN "error" ELSE "hit"]]}

ReproduceSteps ==
    {[d |-> d, uw |-> uw, u |-> sd.u, c |-> sd.c, exec_answer |-> a.exec_answer,
      answers |-> a.answers] :
        d \in ReproduceDraws, uw \in WrapperDraws,
        sd \in {[u |-> <<0, 1>>, c |-> 2], [u |-> <<1, 2>>, c |-> 1]}, a \in ReproduceAnswers}

ReproduceInputs ==
    {[op |-> "reproduce", g |-> name, a |-> RunState(seed_store_init(custom_seeds)),
      b |-> RunState(seed_store_init(custom_seeds))] :
        name \in {"keyword", "no_keywords"},
        custom_seeds \in {cs \in GeneratorSeedInputs : cs.kind # "strings"}}

\* one generate_one call on each of the two generators, with the same draws
\* and answers, each process iterating sets in an order of its own
Reproduce ==
    /\ probe.op = "reproduce"
    /\ Len(probe.a.records) < MaxGenerations
    /\ probe.a.error = "" /\ probe.b.error = ""
    /\ \E in \in ReproduceSteps, g \in {reproduce_grammar(probe.g)} :
           \E ra \in {generation(g, probe.a, in, o) : o \in SetOrders} :
           \E rb \in {generation(g, probe.b, in, o) : o \in SetOrders} :
               probe' = [probe EXCEPT !.a = ra, !.b = rb]
    /\ UNCHANGED <<bandit_vars, store_vars, generator_vars>>

InitReproduce ==
    /\ q = bandit_init(all_arms, DefaultQ).q
    /\ n = bandit_init(all_arms, DefaultQ).n
    /\ bandit_ret = BanditRet("init", NoArm, <<0, 1>>, NoReward)
    /\ applied_rewards = [a \in Range(all_arms) |-> <<>>]
    /\ seeds = <<>>
    /\ store_draws = 0
    /\ store_ret = StoreRet("init", "", <<0, 1>>, 0, "", 0)
    /\ corpus_successful = <<>>
    /\ corpus_origin = <<>>
    /\ calls = <<>>
    /\ record = NoRecord
    /\ ops = 0
    /\ probe \in ReproduceInputs

SpecReproduce == InitReproduce /\ [][Reproduce]_vars

RewardWeights ==
    {default_weights,
     [w_bypass |-> <<2, 1>>, w_similarity |-> <<1, 1>>, w_novelty |-> <<1, 1>>,
      w_invalid |-> <<5, 2>>]}
Similarities == {<<0, 1>>, <<1, 2>>, <<1, 1>>}
Novelties == {<<-5, 1>>, <<0, 1>>, <<1, 2>>, <<1, 1>>, <<5, 1>>}

\* the arguments of one call, before it is made
ComputeInputs ==
    {[op |-> "compute", done |-> FALSE, w |-> w, detected |-> detected,
      similarity |-> similarity, novelty |-> novelty, invalid |-> invalid,
      result |-> NoReward] :
        w \in RewardWeights, detected \in BOOLEAN, similarity \in Similarities,
        novelty \in Novelties, invalid \in BOOLEAN}

\* RewardEngine(weights).compute(detected, similarity, novelty, invalid)
Compute ==
    /\ probe.op = "compute" /\ ~probe.done
    /\ probe' = [probe EXCEPT !.done = TRUE,
                              !.result = compute(probe.w, probe.detected, probe.similarity,
                                                 probe.novelty, probe.invalid)]
    /\ UNCHANGED <<bandit_vars, store_vars, generator_vars>>

\* the reward formula before the penalty and the clamp
raw_reward(w, detected, similarity, novelty) ==
    RAdd(RAdd(RMul(w.w_bypass, IF detected THEN <<0, 1>> ELSE <<1, 1>>),
              RMul(w.w_similarity, RSub(<<1, 1>>, similarity))),
         RMul(w.w_novelty, novelty))

clamp(x) == IF RLt(<<1, 1>>, x) THEN <<1, 1>> ELSE IF RLt(x, <<-1, 1>>) THEN <<-1, 1>> ELSE x

\* C13: compute returns a value in [-1, 1], equal to w_bypass * (1 if not
\* detected else 0) + w_similarity * (1 - similarity) + w_novelty * novelty,
\* minus w_invalid when invalid, clamped to [-1, 1].
RewardInRangeAndFormula ==
    probe.op = "compute" /\ probe.done =>
        LET raw == raw_reward(probe.w, probe.detected, probe.similarity, probe.novelty)
        IN  /\ RLe(<<-1, 1>>, probe.result) /\ RLe(probe.result, <<1, 1>>)
            /\ probe.result = clamp(IF probe.invalid THEN RSub(raw, probe.w.w_invalid) ELSE raw)

\* a valid and an invalid call whose raw value lies below -1, and one whose raw
\* value lies above 1, have been clamped
RewardClampedBelowWitness ==
    /\ probe.op = "compute" /\ probe.done
    /\ RLt(raw_reward(probe.w, probe.detected, probe.similarity, probe.novelty), <<-1, 1>>)
    /\ probe.result = <<-1, 1>>

\* C14 as stated: with the other inputs fixed, invalid = true gives a strictly
\* smaller reward than invalid = false, whatever the unclamped value is.
InvalidStrictlyLowersReward ==
    probe.op = "compute" /\ probe.done =>
        RLt(compute(probe.w, probe.detected, probe.similarity, probe.novelty, TRUE),
            compute(probe.w, probe.detected, probe.similarity, probe.novelty, FALSE))

\* C14 amended: for a positive w_invalid the reward with invalid = true is never
\* larger than with invalid = false; it is strictly smaller exactly when the
\* unclamped value without the penalty lies strictly between -1 and
\* 1 + w_invalid, and otherwise both rewards are clamped to the same bound.
InvalidLowersRewardUnlessClamped ==
    probe.op = "compute" /\ probe.done =>
        LET raw == raw_reward(probe.w, probe.detected, probe.similarity, probe.novelty)
            r_invalid == compute(probe.w, probe.detected, probe.similarity, probe.novelty, TRUE)
            r_valid == compute(probe.w, probe.detected, probe.similarity, probe.novelty, FALSE)
            inside == RLt(<<-1, 1>>, raw) /\ RLt(raw, RAdd(<<1, 1>>, probe.w.w_invalid))
        IN  /\ RLe(r_invalid, r_valid)
            /\ inside => RLt(r_invalid, r_valid)
            /\ ~inside => r_invalid = r_valid

\* an invalid call whose unclamped value without the penalty is above 1 and
\* whose reward is still below the valid one
InvalidLowersRewardWitness ==
    /\ probe.op = "compute" /\ probe.done /\ probe.invalid
    /\ RLt(<<1, 1>>, raw_reward(probe.w, probe.detected, probe.similarity, probe.novelty))
    /\ RLt(probe.result, <<1, 1>>)

MaxStringLen == 5       \* length of the strings handed to canonicalize_payload
\* a caret, two kinds of whitespace, a letter in both cases and another letter
StringAlphabet == {"^", " ", "\t", "A", "a", "b"}
Strings == UNION {[1..k -> StringAlphabet] : k \in 0..MaxStringLen}

CanonicalizeInputs ==
    {[op |-> "canonicalize_payload", done |-> FALSE, s |-> s, result |-> <<>>] : s \in Strings}

\* canonicalize_payload(s)
Canonicalize ==
    /\ probe.op = "canonicalize_payload" /\ ~probe.done
    /\ probe' = [probe EXCEPT !.done = TRUE, !.result = canonicalize_payload(probe.s)]
    /\ UNCHANGED <<bandit_vars, store_vars, generator_vars>>

\* C15: canonicalize_payload(canonicalize_payload(s)) = canonicalize_payload(s),
\* the canonical form having no caret, no upper-case letter, no whitespace
\* other than single spaces, and none at either end.
CanonicalizeIdempotent ==
    probe.op = "canonicalize_payload" /\ probe.done =>
        LET c == probe.result
        IN  /\ canonicalize_payload(c) = c
            /\ \A i \in DOMAIN c : c[i] # "^" /\ c[i] # "\t" /\ c[i] \notin Range(Upper)
            /\ \A i \in 1..(Len(c) - 1) : ~(c[i] = " " /\ c[i + 1] = " ")
            /\ c # <<>> => (c[1] # " " /\ c[Len(c)] # " ")

\* a string whose carets separate two stretches of whitespace, with an
\* upper-case letter: every step of canonicalize_payload changes it
CanonicalizeWitness ==
    /\ probe.op = "canonicalize_payload" /\ probe.done
    /\ probe.s = <<"A", " ", "^", "\t", "b">>
    /\ probe.result = <<"a", " ", "b">>

MaxCheckLen == 4        \* length of the payloads handed to the validator
CheckAlphabet == {"^", " ", "A", "a", "b"}
CheckStrings == UNION {[1..k -> CheckAlphabet] : k \in 0..MaxCheckLen}

\* payloads that carry one spelling of an aliased flag
AliasPayloads ==
    {FlagEp, FlagExecutionpolicy, FlagNoni, FlagNoninteractive,
     <<"a", " ", "-", "E", "P", " ", "b">>,
     <<"A", " ", "-", "N", "o", "n", "I", "n", "t", "e", "r", "a", "c", "t", "i", "v", "e">>}

\* the constraints a grammar can declare: keywords with or without a regex, a
\* regex alone, nothing at all, an upper-case keyword, an aliased flag in
\* either spelling
ConstraintSets ==
    {[must_contain_keyword |-> <<<<"a">>>>, must_contain_all |-> <<>>, regex_positive |-> NoRegex],
     [must_contain_keyword |-> <<<<"a">>>>, must_contain_all |-> <<<<"b">>>>, regex_positive |-> <<"a", " ", "b">>],
     [must_contain_keyword |-> <<<<"a">>>>, must_contain_all |-> <<>>, regex_positive |-> <<"b">>],
     [must_contain_keyword |-> <<>>, must_contain_all |-> <<>>, regex_positive |-> <<"b">>],
     [must_contain_keyword |-> <<>>, must_contain_all |-> <<>>, regex_positive |-> NoRegex],
     [must_contain_keyword |-> <<<<"A">>>>, must_contain_all |-> <<>>, regex_positive |-> NoRegex]}
AliasConstraintSets ==
    {[must_contain_keyword |-> <<kw>>, must_contain_all |-> <<>>, regex_positive |-> NoRegex] :
        kw \in {FlagEp, FlagExecutionpolicy, FlagNoni, FlagNoninteractive}}
MaxLens == {0, 3, MaxCheckLen}
AliasMaxLen == 24

CheckInputs ==
    {[op |-> "check", done |-> FALSE, g |-> [constraints |-> cs], payload |-> payload,
      max_len |-> max_len, quick |-> FALSE, full |-> FALSE] :
        cs \in ConstraintSets, payload \in CheckStrings, max_len \in MaxLens}
    \cup
    {[op |-> "check", done |-> FALSE, g |-> [constraints |-> cs], payload |-> payload,
      max_len |-> AliasMaxLen, quick |-> FALSE, full |-> FALSE] :
        cs \in AliasConstraintSets, payload \in AliasPayloads}

\* Validator(g).quick_check(payload) and Validator(g).full_check(payload, max_len)
Check ==
    /\ probe.op = "check" /\ ~probe.done
    /\ probe' = [probe EXCEPT !.done = TRUE,
                              !.quick = quick_check(probe.g, probe.payload),
                              !.full = full_check(probe.g, probe.payload, probe.max_len)]
    /\ UNCHANGED <<bandit_vars, store_vars, generator_vars>>

\* C16: whatever the payload, the length limit and the constraints of the
\* grammar, full_check true implies quick_check true.
FullCheckImpliesQuickCheck ==
    (probe.op = "check" /\ probe.done /\ probe.full) => probe.quick

\* full_check accepted a payload with a caret and an upper-case letter under a
\* grammar with keywords and a regex
FullCheckWitness ==
    /\ probe.op = "check" /\ probe.done /\ probe.full
    /\ validator_keywords(probe.g) # {}
    /\ probe.g.constraints.regex_positive # NoRegex
    /\ \E i \in DOMAIN probe.payload : probe.payload[i] = "^"
    /\ \E i \in DOMAIN probe.payload : probe.payload[i] = "A"

\* C17: quick_check returns false for every empty or whitespace-only input,
\* for every grammar, also one without keyword constraint.
QuickCheckRejectsBlank ==
    (probe.op = "check" /\ probe.done
        /\ \A i \in DOMAIN probe.payload : probe.payload[i] \in Whitespace)
    => ~probe.quick

\* the two spellings of each aliased flag
AliasPairs == {{FlagEp, FlagExecutionpolicy}, {FlagNoni, FlagNoninteractive}}

\* the payload carries the flag as a word of its own, in any letter case
carries_flag(payload, flag) ==
    \E i \in DOMAIN payload : matches_word_at(payload, i, flag)

\* C18: when the required keyword is one spelling of an aliased flag, quick_check
\* and full_check accept a payload that carries either spelling of that flag.
AliasSpellingsInterchangeable ==
    (probe.op = "check" /\ probe.done) =>
        \A pair \in AliasPairs :
            (/\ \E kw \in pair : validator_keywords(probe.g) = {kw}
             /\ \E flag \in pair : carries_flag(probe.payload, flag)
             /\ Len(probe.payload) <= probe.max_len
             /\ probe.g.constraints.regex_positive = NoRegex)
            => (probe.quick /\ probe.full)

\* C37: whatever the keywords of the grammar, upper-case keywords and the
\* long spelling of an aliased flag included, a core that _matches_constraints
\* accepts passes quick_check.
ConstraintsImplyQuickCheck ==
    (probe.op = "check" /\ probe.done /\ matches_constraints(probe.g, probe.payload))
        => probe.quick

\* grammars for build_core_from_seed: the grammar of the run; one whose regex
\* only the first executable satisfies; one with a placeholder executable and
\* a first structure that cannot contain the required keyword
grammar_net_only ==
    [grammar EXCEPT !.constraints.regex_positive = <<"n", "e", "t", " ", "s", "t", "a", "r", "t">>]
grammar_two_structures ==
    [grammar EXCEPT
        !.terminals.executables = <<[tok |-> <<"<", "e", "x", "e", ">">>, weight |-> 1, examples |-> <<>>],
                                    [tok |-> <<"n", "e", "t">>, weight |-> 1, examples |-> <<>>]>>,
        !.structures = <<[grammar.structures[1] EXCEPT ![3].tok = <<"s", "t", "o", "p">>]>>
                       \o grammar.structures]
BuildGrammars == {grammar, grammar_net_only, grammar_two_structures}

\* seeds: two that parse, one with a caret, upper case and a double space, one
\* that matches no structure, one behind a shell prefix, one that parses and
\* carries a pipe, one in double quotes
BuildSeeds ==
    {<<"n", "e", "t", " ", "s", "t", "a", "r", "t", " ", "w">>, <<"N", "E", "T", " ", "^", "S", "T", "A", "R", "T", " ", " ", "w">>, <<"s", "c", " ", "s", "t", "a", "r", "t", " ", "w">>, <<"x", " ", "y">>, <<"c", "m", "d", " ", "/", "c", " ", "n", "e", "t", " ", "s", "t", "a", "r", "t", " ", "w">>, <<"n", "e", "t", " ", "s", "t", "a", "r", "t", " ", "a", "|", "b">>, <<"\"", "x", "\"">>}

\* the draws of one attempt, and the draws of the ten attempts: the same draws
\* up to some attempt and other draws from it on
AttemptDraws == {[u |-> u, c |-> c] : u \in WrapperDraws, c \in 1..2}
DrawSequences ==
    {[i \in 1..MAX_RETRIES |-> IF i < k THEN d1 ELSE d2] :
        d1 \in AttemptDraws, d2 \in AttemptDraws, k \in 1..MAX_RETRIES}

BuildCoreInputs ==
    {[op |-> "build_core_from_seed", done |-> FALSE, g |-> g, seed |-> seed,
      draws |-> draws, core |-> <<>>, mode |-> "", attempts |-> 0, warned |-> FALSE] :
        g \in BuildGrammars, seed \in BuildSeeds, draws \in DrawSequences}

\* PayloadGenerator(g).build_core_from_seed(seed); attempts and warned tell
\* how the fallback, if it ran, came to its result (history)
BuildCore ==
    /\ probe.op = "build_core_from_seed" /\ ~probe.done
    /\ LET built == build_core_from_seed(probe.g, probe.seed, probe.draws)
           loop == IF built.mode = "fallback" THEN retry_loop(probe.g, probe.draws, 1)
                   ELSE [attempts |-> 0, warned |-> FALSE]
       IN  probe' = [probe EXCEPT !.done = TRUE, !.core = built.core, !.mode = built.mode,
                                  !.attempts = loop.attempts, !.warned = loop.warned]
    /\ UNCHANGED <<bandit_vars, store_vars, generator_vars>>

validator_init(constraints) ==
    LET keyword == constraints.must_contain_keyword
        shared == keyword.kind = "list" /\ keyword.value # <<>>
        keywords == IF keyword.kind = "str" /\ keyword.value # <<>> THEN <<keyword.value>>
                    ELSE IF shared THEN keyword.value
                    ELSE <<>>
        extended == keywords \o constraints.must_contain_all
    IN  [keywords |-> Range(extended), regex |-> constraints.regex_positive,
         constraints |-> IF shared
                         THEN [constraints EXCEPT !.must_contain_keyword.value = extended]
                         ELSE constraints]

MaxConstructions == 2   \* Validators built on one grammar object

\* the constraints a grammar file can carry: no keyword, a keyword as a
\* string, keywords as a list, with and without must_contain_all
ValidatorKeywordForms ==
    {[kind |-> "none", value |-> <<>>], [kind |-> "str", value |-> <<>>],
     [kind |-> "str", value |-> <<"a">>], [kind |-> "list", value |-> <<>>],
     [kind |-> "list", value |-> <<<<"a">>>>],
     [kind |-> "list", value |-> <<<<"a">>, <<"b">>>>]}
ValidatorInputs ==
    {[op |-> "validator_init", done |-> FALSE, calls |-> 0,
      given |-> [must_contain_keyword |-> kw, must_contain_all |-> all,
                 regex_positive |-> regex],
      constraints |-> [must_contain_keyword |-> kw, must_contain_all |-> all,
                       regex_positive |-> regex],
      keywords |-> {}] :
        kw \in ValidatorKeywordForms, all \in {<<>>, <<<<"b">>>>, <<<<"a">>, <<"c">>>>},
        regex \in {NoRegex, <<"a">>}}

\* Validator(grammar), as PayloadGenerator.__init__ and the scripts call it,
\* on a grammar that may have been handed to a Validator before
ConstructValidator ==
    /\ probe.op = "validator_init" /\ probe.calls < MaxConstructions
    /\ probe' = [probe EXCEPT !.done = TRUE, !.calls = @ + 1,
                              !.constraints = validator_init(probe.constraints).constraints,
                              !.keywords = validator_init(probe.constraints).keywords]
    /\ UNCHANGED <<bandit_vars, store_vars, generator_vars>>

\* C36: the grammar is the same after the construction of a Validator (and
\* with it of a generator) as before: every section, the keyword lists of
\* rules.payload_core.constraints included, is left as given.
GrammarUnchangedByConstruction ==
    (probe.op = "validator_init" /\ probe.done) => probe.constraints = probe.given

\* the strings _try_parse_with_structure rebuilds for the probe's seed, one
\* for each structure of the grammar that the seed matches
Reconstructions ==
    LET seed_norm == canonicalize_for_match(probe.seed)
        m(i) == match_steps(probe.g, seed_norm, probe.g.structures[i], 1, 1)
    IN  {canonicalize_for_match(rebuild(probe.g.structures[i], 1, m(i).groups)) :
            i \in {j \in DOMAIN probe.g.structures : m(j).ok}}

\* C34: a core returned with mode canonical satisfies the constraints of the
\* grammar and is the string rebuilt from a structure the seed matches; a
\* seed whose every rebuilt string violates the constraints is not returned
\* as canonical.
CanonicalSatisfiesConstraints ==
    (probe.op = "build_core_from_seed" /\ probe.done) =>
        /\ probe.mode = "canonical" =>
               /\ matches_constraints(probe.g, probe.core)
               /\ probe.core \in Reconstructions
        /\ (\A r \in Reconstructions : ~matches_constraints(probe.g, r))
               => probe.mode # "canonical"

\* a seed that matches a structure and is returned as canonical in a form
\* other than its own, satisfying the constraints
CanonicalSatisfiesConstraintsWitness ==
    /\ probe.op = "build_core_from_seed" /\ probe.done
    /\ probe.mode = "canonical" /\ probe.core # probe.seed
    /\ matches_constraints(probe.g, probe.core)

InitFunctions ==
    /\ q = bandit_init(all_arms, DefaultQ).q
    /\ n = bandit_init(all_arms, DefaultQ).n
    /\ bandit_ret = BanditRet("init", NoArm, <<0, 1>>, NoReward)
    /\ applied_rewards = [a \in Range(all_arms) |-> <<>>]
    /\ seeds = <<>>
    /\ store_draws = 0
    /\ store_ret = StoreRet("init", "", <<0, 1>>, 0, "", 0)
    /\ corpus_successful = <<>>
    /\ corpus_origin = <<>>
    /\ calls = <<>>
    /\ record = NoRecord
    /\ ops = 0
    /\ \/ probe \in ComputeInputs
       \/ probe \in CanonicalizeInputs
       \/ probe \in CheckInputs
       \/ probe \in BuildCoreInputs
       \/ probe \in ValidatorInputs

NextFunctions == Compute \/ Canonicalize \/ Check \/ BuildCore \/ ConstructValidator

SpecFunctions == InitFunctions /\ [][NextFunctions]_vars

(***************************************************************************)
(* The operations of the registry, the grammar loader and the detector     *)
(* adapter, each called once on arguments drawn from small sets.           *)
(***************************************************************************)
MaxTokens == 3      \* pieces a payload handed to an evasion technique is made of

RECURSIVE concat(_)
concat(pieces) == IF pieces = <<>> THEN <<>> ELSE Head(pieces) \o concat(Tail(pieces))

\* payloads made of up to MaxTokens pieces
payloads_of(tokens) == {concat(ps) : ps \in UNION {[1..k -> tokens] : k \in 0..MaxTokens}}

OmissionTokens == {<<"n", "e", "t", ".", "e", "x", "e">>, <<"s", "c", ".", "e", "x", "e">>, <<"c", "m", "d", ".", "e", "x", "e">>, <<"N", "E", "T", ".", "E", "X", "E">>, DotExe, <<" ">>, <<"x">>}

OmissionInputs ==
    {[op |-> "omission", payload |-> p, results |-> <<>>] : p \in payloads_of(OmissionTokens)}

\* _apply_evasion_technique("omission", .) applied to the payload, then to
\* what it returned
Omission ==
    /\ probe.op = "omission" /\ Len(probe.results) < 2
    /\ probe' = [probe EXCEPT !.results =
                     Append(@, apply_omission(IF @ = <<>> THEN probe.payload ELSE @[Len(@)]))]
    /\ UNCHANGED <<bandit_vars, store_vars, generator_vars>>

\* C21: omission applied twice in a row gives what omission applied once
\* gives, for every payload.
OmissionIdempotent ==
    (probe.op = "omission" /\ Len(probe.results) = 2) => probe.results[2] = probe.results[1]

RecodingTokens ==
    {<<"1", "2", "7", ".", "0", ".", "0", ".", "1">>, <<"1", "9", "2", ".", "1", "6", "8", ".", "1", ".", "1">>, <<"1", ".", "1", ".", "1", ".", "1">>, <<"9", "9", "9", ".", "2", "5", "6", ".", "0", ".", "1">>, <<" ">>, <<"1">>, <<".">>, <<"a">>}

RecodingInputs ==
    {[op |-> "recoding", done |-> FALSE, payload |-> p, result |-> <<>>] :
        p \in payloads_of(RecodingTokens)}

\* _apply_evasion_technique("recoding", payload)
Recoding ==
    /\ probe.op = "recoding" /\ ~probe.done
    /\ probe' = [probe EXCEPT !.done = TRUE, !.result = apply_recoding(probe.payload)]
    /\ UNCHANGED <<bandit_vars, store_vars, generator_vars>>

RECURSIVE bits_of(_)
\* the binary digits of k, least significant first
bits_of(k) == IF k = 0 THEN <<>> ELSE <<k % 2>> \o bits_of(k \div 2)

\* a | b on binary digits
bits_or(a, b) ==
    [k \in 1..(IF Len(a) > Len(b) THEN Len(a) ELSE Len(b)) |->
        IF (k <= Len(a) /\ a[k] = 1) \/ (k <= Len(b) /\ b[k] = 1) THEN 1 ELSE 0]

RECURSIVE big_of_bits(_)
\* the value of binary digits, least significant first
big_of_bits(b) == IF b = <<>> THEN <<>> ELSE big_scale(big_of_bits(Tail(b)), 2, Head(b))

\* (o0<<24)|(o1<<16)|(o2<<8)|o3
ip_or_value(octets) ==
    LET shifted(k, bits) == [j \in 1..bits |-> 0] \o bits_of(k)
    IN  big_of_bits(bits_or(bits_or(shifted(octets[1], 24), shifted(octets[2], 16)),
                            bits_or(shifted(octets[3], 8), bits_of(octets[4]))))

\* C22: the first dotted-decimal address of the payload is replaced by the
\* decimal value (o0<<24)|(o1<<16)|(o2<<8)|o3 and the rest of the payload is
\* unchanged; 127.0.0.1 gives 2130706433 and 192.168.1.1 gives 3232235777.
RecodingReplacesFirstAddress ==
    (probe.op = "recoding" /\ probe.done) =>
        LET m == first_ip(probe.payload)
            ip == SubSeq(probe.payload, m.from, m.to)
        IN  /\ m.found =>
                   probe.result = SubSeq(probe.payload, 1, m.from - 1)
                                      \o big_str(ip_or_value(octets_of(ip)))
                                      \o SubSeq(probe.payload, m.to + 1, Len(probe.payload))
            /\ ~m.found => probe.result = probe.payload
            /\ probe.payload = <<"1", "2", "7", ".", "0", ".", "0", ".", "1">> => probe.result = <<"2", "1", "3", "0", "7", "0", "6", "4", "3", "3">>
            /\ probe.payload = <<"1", "9", "2", ".", "1", "6", "8", ".", "1", ".", "1">> => probe.result = <<"3", "2", "3", "2", "2", "3", "5", "7", "7", "7">>

(***************************************************************************)
(* Loading a grammar and building a generator from it (grammar_loader.py,  *)
(* generator.py).  A grammar document is described by the top-level        *)
(* sections it has and by whether its rules hold payload_core; a section   *)
(* that is present is complete.                                            *)
(***************************************************************************)
REQUIRED_TOP ==
    <<"meta", "terminals", "obfuscation_groups", "rules", "mutation_engine", "sampling">>

GrammarDocs ==
    {[sections |-> present, payload_core |-> pc] :
        present \in SUBSET Range(REQUIRED_TOP), pc \in BOOLEAN} \
    {doc \in [sections : SUBSET Range(REQUIRED_TOP), payload_core : BOOLEAN] :
        doc.payload_core /\ "rules" \notin doc.sections}

\* load_and_validate(): the error it raises on the document, "" if none
load_and_validate(doc) ==
    IF \E k \in Range(REQUIRED_TOP) : k \notin doc.sections THEN "ValueError"
    ELSE IF ~doc.payload_core THEN "ValueError"
    ELSE ""

\* PayloadGenerator.__init__(grammar): the sections it subscripts are
\* mutation_engine and sampling; the validator, the registry and the detector
\* client read the grammar with .get and a default
generator_init_error(doc) ==
    IF "mutation_engine" \notin doc.sections \/ "sampling" \notin doc.sections
    THEN "KeyError" ELSE ""

\* the steps of generate_one up to the validation of the payload, in order
generate_one_steps ==
    <<"select_seed_epsilon", "build_core_from_seed", "choose_wrapper", "apply_mutations",
      "full_check">>

\* the error a step of generate_one raises on the document, for a seed
\* without a strong wrapper: parsing and generating read grammar["terminals"],
\* so does choose_wrapper, and full_check is handed grammar["meta"]
step_error(doc, step) ==
    IF step = "build_core_from_seed" /\ "terminals" \notin doc.sections
    THEN IF doc.payload_core THEN "KeyError" ELSE "ValueError"
    ELSE IF step = "choose_wrapper" /\ "terminals" \notin doc.sections THEN "KeyError"
    ELSE IF step = "full_check" /\ "meta" \notin doc.sections THEN "KeyError"
    ELSE ""

\* generate_one() on a generator built from the document: the steps entered,
\* the last of which raised if error is not ""
generate_one_on(doc) ==
    IF \E k \in DOMAIN generate_one_steps : step_error(doc, generate_one_steps[k]) # ""
    THEN LET k == CHOOSE k \in DOMAIN generate_one_steps :
                      /\ step_error(doc, generate_one_steps[k]) # ""
                      /\ \A j \in 1..(k - 1) : step_error(doc, generate_one_steps[j]) = ""
         IN  [steps |-> SubSeq(generate_one_steps, 1, k),
              error |-> step_error(doc, generate_one_steps[k])]
    ELSE [steps |-> generate_one_steps, error |-> ""]

\* a grammar document on its way to a generator: through load_and_validate
\* (generator.py:522-523) or handed to the constructor as read from the file
\* (scripts/fuzz.py:194-228)
GrammarInputs ==
    {[op |-> "grammar", entry |-> entry, doc |-> doc, stage |-> "given", steps |-> <<>>,
      error |-> ""] : entry \in {"load_and_validate", "constructor"}, doc \in GrammarDocs}

\* grammar = load_and_validate()
LoadGrammar ==
    /\ probe.op = "grammar" /\ probe.entry = "load_and_validate" /\ probe.stage = "given"
    /\ probe' = [probe EXCEPT !.error = load_and_validate(probe.doc),
                              !.stage = IF load_and_validate(probe.doc) = "" THEN "loaded"
                                        ELSE "rejected"]
    /\ UNCHANGED <<bandit_vars, store_vars, generator_vars>>

\* gen = PayloadGenerator(grammar, custom_seeds)
ConstructGenerator ==
    /\ probe.op = "grammar"
    /\ \/ probe.stage = "loaded"
       \/ probe.entry = "constructor" /\ probe.stage = "given"
    /\ probe' = [probe EXCEPT !.error = generator_init_error(probe.doc),
                              !.stage = IF generator_init_error(probe.doc) = ""
                                        THEN "constructed" ELSE "rejected"]
    /\ UNCHANGED <<bandit_vars, store_vars, generator_vars>>

\* gen.generate_one()
GenerateOnGrammar ==
    /\ probe.op = "grammar" /\ probe.stage = "constructed"
    /\ probe' = [probe EXCEPT !.steps = generate_one_on(probe.doc).steps,
                              !.error = generate_one_on(probe.doc).error,
                              !.stage = "generated"]
    /\ UNCHANGED <<bandit_vars, store_vars, generator_vars>>

\* C23: a grammar lacking a required section, or rules.payload_core, is
\* rejected when it is loaded or when the generator is built: no generator
\* exists for it and no step of generate_one runs on it.
MalformedGrammarRejectedEarly ==
    (probe.op = "grammar" /\ load_and_validate(probe.doc) # "") =>
        /\ probe.stage \in {"given", "rejected"}
        /\ probe.steps = <<>>

(***************************************************************************)
(* apply_operator and apply_mutations on their own.                        *)
(***************************************************************************)
\* what apply_operator is called with: the operators of the grammar's groups,
\* as objects (generator.py:409-410) and by name, and the names of techniques
OperatorArguments ==
    UNION {{OperatorObject(o), OpName(o.name)} :
               o \in UNION {Range(grammar.obfuscation_groups[g]) : g \in Range(groups)}}
    \cup {OpName(t) : t \in Range(technique_names)}

OperatorPayloads ==
    {<<"n", "e", "t", " ", "s", "t", "a", "r", "t", " ", "w">>, <<"N", "E", "T", " ", "s", "t", "a", "r", "t", " ", "w">>, <<"n", "e", "t", ".", "e", "x", "e", " ", "s", "t", "a", "r", "t", " ", "-", "w", " ", "/", "y", " ", "w">>, <<"p", "i", "n", "g", " ", "1", ".", "1", ".", "1", ".", "1">>, <<>>}

ApplyOperatorInputs ==
    {[op |-> "apply_operator", done |-> FALSE, operator |-> o, payload |-> p, c |-> c,
      result |-> <<>>] :
        o \in OperatorArguments, p \in OperatorPayloads \cup payloads_of({<<"n", "e", "t">>, <<" ">>}),
        c \in 1..2}

\* OperatorRegistry(grammar).apply_operator(op_name, payload)
ApplyOperator ==
    /\ probe.op = "apply_operator" /\ ~probe.done
    /\ probe' = [probe EXCEPT !.done = TRUE,
                              !.result = apply_operator(probe.operator, probe.payload, probe.c)]
    /\ UNCHANGED <<bandit_vars, store_vars, generator_vars>>

\* C29: apply_operator on a pattern-based operator of a grammar group returns
\* a string for every payload, never an absent value.
ApplyOperatorReturnsString ==
    (probe.op = "apply_operator" /\ probe.done
        /\ ~(probe.operator.kind = "str" /\ probe.operator.name \in Range(technique_names)))
        => probe.result # NoneValue

\* the bandit's values apply_mutations can meet: all arms tied, the group
\* ahead, an evasion arm ahead
MutationQs ==
    {[a \in Range(all_arms) |-> DefaultQ],
     [a \in Range(all_arms) |-> IF a = groups[1] THEN <<1, 2>> ELSE DefaultQ],
     [a \in Range(all_arms) |-> IF a = "evasion_omission" THEN <<1, 2>> ELSE DefaultQ]}

MutationCores == {<<"n", "e", "t", " ", "s", "t", "a", "r", "t", " ", "w">>, <<"n", "e", "t", ".", "e", "x", "e", " ", "s", "t", "a", "r", "t", " ", "-", "w", " ", "/", "y", " ", "w">>, <<"p", "i", "n", "g", " ", "1", ".", "1", ".", "1", ".", "1">>}

\* the draws of the first stage: no technique, or a technique with its choice
EvasionDraws ==
    {[u |-> EvasionChance, technique |-> 1, c |-> 1]}
    \cup {[u |-> <<0, 1>>, technique |-> t, c |-> c] : t \in DOMAIN technique_names, c \in 1..3}

\* the draws of one iteration: exploring with one of three arms coming out,
\* or exploiting
StepDraws ==
    {[u |-> <<0, 1>>, c |-> c, op |-> 1] : c \in {1, 2, 4}}
    \cup {[u |-> <<1, 2>>, c |-> 1, op |-> 2]}

\* the draws of the chain: k iterations out of max_mutations
ChainDraws(max_mut) ==
    {[k |-> k, steps |-> steps] : k \in 1..max_mut, steps \in [1..max_mut -> StepDraws]}

MutationDraws ==
    {[evasion |-> e, k |-> ch.k, steps |-> ch.steps] :
        e \in EvasionDraws, ch \in ChainDraws(grammar.mutation_engine.max_mutations)}

NoMutation ==
    [core |-> <<>>, applied |-> <<>>, error |-> "", trace |-> <<>>, technique |-> "",
     evaded |-> <<>>]

\* the draws a core admits: the technique's own choice is one it has
draws_for(core) ==
    {d \in MutationDraws :
         d.evasion.c <= technique_choices(technique_names[d.evasion.technique], core)}

ApplyMutationsInputs ==
    UNION {{[op |-> "apply_mutations", done |-> FALSE, g |-> g, core |-> core, bq |-> bq,
             d |-> d, result |-> NoMutation] :
                g \in {grammar, grammar_no_keywords}, bq \in MutationQs, d \in draws_for(core)} :
           core \in MutationCores}

\* PayloadGenerator(g).apply_mutations(core)
ApplyMutations ==
    /\ probe.op = "apply_mutations" /\ ~probe.done
    /\ probe' = [probe EXCEPT !.done = TRUE,
                              !.result = apply_mutations(probe.g, probe.core, probe.bq, probe.d)]
    /\ UNCHANGED <<bandit_vars, store_vars, generator_vars>>

\* the arms of the iterations with the given outcome, in order
arms_with(trace, outcome) ==
    LET hits == SelectSeq(trace, LAMBDA step : step.outcome = outcome)
    IN  [k \in DOMAIN hits |-> hits[k].arm]

\* C27: in the chain every iteration that is not skipped either keeps its
\* result, which then passes quick_check, and records its group, or rejects
\* it, leaves the core as it was and goes on to the next iteration; the names
\* recorded by the chain are those of the kept results.
ChainKeepsOnlyChecked ==
    (probe.op = "apply_mutations" /\ probe.done) =>
        LET r == probe.result
            first == IF r.technique = "" THEN 0 ELSE 1
        IN  /\ r.error = ""
            /\ \A k \in DOMAIN r.trace : r.trace[k].outcome \in {"skipped", "kept", "rejected"}
            /\ SubSeq(r.applied, first + 1, Len(r.applied)) = arms_with(r.trace, "kept")
            /\ IF arms_with(r.trace, "kept") = <<>> THEN r.core = r.evaded
               ELSE r.core # NoneValue /\ quick_check(probe.g, r.core)

\* C28: a core that passes quick_check is still passing quick_check when
\* apply_mutations returns it, whatever was applied.
MutationsKeepQuickCheck ==
    (probe.op = "apply_mutations" /\ probe.done /\ quick_check(probe.g, probe.core)) =>
        /\ probe.result.error = ""
        /\ probe.result.core # NoneValue
        /\ quick_check(probe.g, probe.result.core)

\* C30: an arm selected in the chain is skipped exactly when it is the arm of
\* the technique applied in the first stage of the same call.
SkipsOnlyAppliedTechnique ==
    (probe.op = "apply_mutations" /\ probe.done) =>
        \A k \in DOMAIN probe.result.trace :
            LET step == probe.result.trace[k]
            IN  (step.outcome = "skipped")
                    <=> /\ probe.result.technique # ""
                        /\ \E t \in DOMAIN technique_names :
                               /\ technique_names[t] = probe.result.technique
                               /\ evasion_techniques[t] = step.arm

(***************************************************************************)
(* RealSiemClient.analyze on its own, against every sequence of answers of *)
(* the search backend.                                                     *)
(***************************************************************************)
AnswerSequences == [1..QueryAttempts -> {"hit", "miss", "error"}]

AnalyzePayloads == {<<"n", "e", "t", " ", "s", "t", "a", "r", "t", " ", "w">>, <<"N", "E", "T", " ", " ", "s", "t", "a", "r", "t", " ", "w">>}

NoAnalysis == [detected |-> FALSE, similarity |-> <<0, 1>>, queries |-> 0]

AnalyzeInputs ==
    {[op |-> "analyze", done |-> FALSE, payload |-> p, answers |-> a, result |-> NoAnalysis] :
        p \in AnalyzePayloads, a \in AnswerSequences}

\* RealSiemClient(grammar).analyze(payload)
Analyze ==
    /\ probe.op = "analyze" /\ ~probe.done
    /\ probe' = [probe EXCEPT !.done = TRUE,
                              !.result = analyze(probe.payload, probe.answers)]
    /\ UNCHANGED <<bandit_vars, store_vars, generator_vars>>

\* the attempts that report a hit
hits_of(answers) == {i \in DOMAIN answers : answers[i] = "hit"}

\* C26: analyze returns for every sequence of answers, failures included; it
\* issues at most 6 queries and exactly as many as it takes to reach the
\* first hit; it reports a detection, with similarity 1, exactly when some
\* attempt before the end reports a hit, failed attempts counting as misses.
AnalyzeSurvivesQueryFailures ==
    (probe.op = "analyze" /\ probe.done) =>
        LET r == probe.result
            hits == hits_of(probe.answers)
        IN  /\ r.queries <= QueryAttempts
            /\ r.detected <=> hits # {}
            /\ r.detected => /\ r.similarity = <<1, 1>>
                             /\ r.queries \in hits
                             /\ \A i \in hits : r.queries <= i
            /\ ~r.detected => r.queries = QueryAttempts

AnalyzeSurvivesQueryFailuresWitness ==
    /\ probe.op = "analyze" /\ probe.done
    /\ probe.answers[1] = "error" /\ probe.answers[2] = "miss" /\ probe.answers[3] = "hit"
    /\ probe.result.detected /\ probe.result.queries = 3

\* one call of one operation on arguments drawn beforehand
InitOperators ==
    /\ q = bandit_init(all_arms, DefaultQ).q
    /\ n = bandit_init(all_arms, DefaultQ).n
    /\ bandit_ret = BanditRet("init", NoArm, <<0, 1>>, NoReward)
    /\ applied_rewards = [a \in Range(all_arms) |-> <<>>]
    /\ seeds = <<>>
    /\ store_draws = 0
    /\ store_ret = StoreRet("init", "", <<0, 1>>, 0, "", 0)
    /\ corpus_successful = <<>>
    /\ corpus_origin = <<>>
    /\ calls = <<>>
    /\ record = NoRecord
    /\ ops = 0
    /\ \/ probe \in OmissionInputs
       \/ probe \in RecodingInputs
       \/ probe \in GrammarInputs
       \/ probe \in ApplyOperatorInputs
       \/ probe \in ApplyMutationsInputs
       \/ probe \in AnalyzeInputs

NextOperators ==
    \/ Omission \/ Recoding
    \/ LoadGrammar \/ ConstructGenerator \/ GenerateOnGrammar
    \/ ApplyOperator \/ ApplyMutations
    \/ Analyze

SpecOperators == InitOperators /\ [][NextOperators]_vars

(***************************************************************************)
(* The generator built with use_llm = True: the second stage of            *)
(* apply_mutations asks the creative-mutation adapter, an external         *)
(* collaborator whose answer (a text, the payload it was handed, nothing,  *)
(* or an exception) is an input of the call.                               *)
(***************************************************************************)
llm_rate == <<3, 10>>           \* llm_rate: float = 0.3

\* plausible slip: the adapter's text is taken over without quick_check
llm_stage_unchecked(g, cur, applied, history, llm) ==
    LET mutated == IF llm.answer.kind = "payload" THEN cur ELSE llm.answer.text
        kept == [core |-> cur, applied |-> applied, history |-> history,
                 asked |-> RLt(llm.u, llm_rate), accepted |-> FALSE, before |-> cur]
    IN  IF ~RLt(llm.u, llm_rate) \/ llm.answer.kind = "raise" THEN kept
        ELSE IF mutated # NoneValue /\ mutated # <<>>
        THEN [core |-> mutated, applied |-> Append(applied, "llm_mutation"),
              history |-> Append(history, mutated), asked |-> TRUE, accepted |-> TRUE,
              before |-> cur]
        ELSE kept

\* step 2 of apply_mutations with use_llm set and an adapter at hand:
\* llm.u is rng.random(), llm.answer what mutate_payload does when called.
\* "if mutated and self.validator.quick_check(mutated)" decides whether the
\* text replaces cur; an exception is caught and leaves cur as it was.
llm_stage(g, cur, applied, history, llm) ==
    LET mutated == IF llm.answer.kind = "payload" THEN cur ELSE llm.answer.text
        kept == [core |-> cur, applied |-> applied, history |-> history,
                 asked |-> RLt(llm.u, llm_rate), accepted |-> FALSE, before |-> cur]
    IN  IF ~RLt(llm.u, llm_rate) \/ llm.answer.kind = "raise" THEN kept
        ELSE IF mutated # NoneValue /\ mutated # <<>> /\ quick_check(g, mutated)
        THEN [core |-> mutated, applied |-> Append(applied, "llm_mutation"),
              history |-> Append(history, mutated), asked |-> TRUE, accepted |-> TRUE,
              before |-> cur]
        ELSE kept

\* apply_mutations(core) of a generator built with use_llm = True: the first
\* stage and the chain as in apply_mutations, the second stage between them.
\* stage is the outcome of the second stage.
apply_mutations_llm(g, core, bq, history, d, llm) ==
    LET evade == RLt(d.evasion.u, EvasionChance)
        technique == IF evade THEN technique_names[d.evasion.technique] ELSE ""
        applied == IF evade THEN <<evasion_techniques[d.evasion.technique]>> ELSE <<>>
    IN  CHOOSE result \in
            UNION {UNION {{[core |-> chain.core, applied |-> chain.applied,
                            error |-> chain.error, stage |-> stage] :
                               chain \in {traditional_chain(g, bq, stage.core, stage.applied,
                                                            <<>>, d.steps, 1, d.k)}} :
                          stage \in {llm_stage(g, cur, applied, history, llm)}} :
                   cur \in {IF evade THEN apply_evasion_technique(technique, core, d.evasion.c)
                            ELSE core}} : TRUE

\* the state of a generator built with use_llm = True, with the record its
\* last generate_one returned; calls counts the generate_one calls, selected
\* is the position of the seed the last call selected (0 if none) and stage
\* the outcome of its second stage (history)
NoStage ==
    [core |-> <<>>, applied |-> <<>>, history |-> <<>>, asked |-> FALSE,
     accepted |-> FALSE, before |-> <<>>]
CreativeState(ss) ==
    [seeds |-> ss, q |-> bandit_init(all_arms, DefaultQ).q,
     n |-> bandit_init(all_arms, DefaultQ).n, corpus_successful |-> <<>>,
     mutation_history |-> <<>>, record |-> NoRecord, error |-> "", calls |-> 0,
     selected |-> 0, stage |-> NoStage]

\* generate_one of that generator as a function of its state st and of the
\* draws and the collaborators' answers in
generate_one_llm(g, st, in) ==
    LET sel == select_seed_epsilon(st.seeds, g.sampling.epsilon_seed, in.u, in.c)
    IN  IF sel.error # ""
        THEN [st EXCEPT !.error = sel.error, !.calls = @ + 1, !.selected = 0,
                        !.stage = NoStage, !.record = NoRecord]
        ELSE CHOOSE result \in
            {IF mutation.error # ""
             THEN [st EXCEPT !.error = mutation.error, !.calls = @ + 1,
                             !.selected = sel.index, !.stage = mutation.stage,
                             !.mutation_history = mutation.stage.history,
                             !.record = NoRecord]
             ELSE LET seed == st.seeds[sel.index]
                      payload == format_wrapper(pick_weighted(g.wrappers, in.uw),
                                                str_of(mutation.core))
                      valid_syntax == full_check(g, payload, g.meta.max_payload_len)
                      score == score_payload(valid_syntax, in.exec_answer,
                                             analyze(payload, in.answers))
                      reward == compute(default_weights, score.detected, score.similarity,
                                        Novelty, ~valid_syntax \/ ~score.exec_success)
                      bandit == update_applied(st.q, st.n, Range(mutation.applied), reward)
                      promote == promoted(score.exec_success, score.detected)
                      rec == [payload |-> payload, valid |-> valid_syntax /\ score.exec_success,
                              detected |-> score.detected, similarity |-> score.similarity,
                              reward |-> reward, seed_id |-> seed.id,
                              applied_groups |-> mutation.applied, core |-> mutation.core]
                  IN  [seeds |-> seeds_after_generation(st.seeds, seed.id, reward, promote),
                       q |-> bandit.q, n |-> bandit.n,
                       corpus_successful |->
                           IF promote
                           THEN Append(st.corpus_successful,
                                       corpus_entry(payload, mutation.core))
                           ELSE st.corpus_successful,
                       mutation_history |-> mutation.stage.history,
                       record |-> rec, error |-> "",
                       calls |-> st.calls + 1, selected |-> sel.index,
                       stage |-> mutation.stage] :
                 mutation \in {apply_mutations_llm(g, core_of[st.seeds[sel.index].string],
                                                   st.q, st.mutation_history, in.d, in.llm)}} :
            TRUE

\* the draws of apply_mutations in such a run: the first stage applying
\* nothing or the insertion technique; the chain drawing an evasion arm in
\* its one iteration, or the group in each of two iterations
CreativeDraws ==
    {[evasion |-> [u |-> EvasionChance, technique |-> 1, c |-> 1], k |-> 1,
      steps |-> [i \in 1..grammar.mutation_engine.max_mutations |->
                    [u |-> <<0, 1>>, c |-> 2, op |-> 1]]],
     [evasion |-> [u |-> <<0, 1>>, technique |-> 1, c |-> 3], k |-> 1,
      steps |-> [i \in 1..grammar.mutation_engine.max_mutations |->
                    [u |-> <<0, 1>>, c |-> 2, op |-> 1]]],
     [evasion |-> [u |-> <<0, 1>>, technique |-> 1, c |-> 3],
      k |-> grammar.mutation_engine.max_mutations,
      steps |-> [i \in 1..grammar.mutation_engine.max_mutations |->
                    [u |-> <<0, 1>>, c |-> 1, op |-> 1]]]}

\* what the adapter is drawn to do: not asked (the draw reaches llm_rate), or
\* asked and answering a text that keeps the keyword, one that drops it, an
\* empty text, the payload it was handed, or raising
LlmDraws ==
    {[u |-> llm_rate, answer |-> [kind |-> "text", text |-> <<>>]],
     [u |-> <<0, 1>>, answer |-> [kind |-> "text", text |-> <<"n", "e", "t", " ", "s", "t", "a", "r", "t", " ", "z">>]],
     [u |-> <<0, 1>>, answer |-> [kind |-> "text", text |-> <<"n", "e", "t", " ", "s", "t", "o", "p", " ", "w">>]],
     [u |-> <<0, 1>>, answer |-> [kind |-> "text", text |-> <<>>]],
     [u |-> <<0, 1>>, answer |-> [kind |-> "payload", text |-> <<>>]],
     [u |-> <<0, 1>>, answer |-> [kind |-> "raise", text |-> <<>>]]}

\* the draws and answers of one call: every behaviour of the adapter with
\* every draw of apply_mutations, the best seed selected and the payload run
\* and not detected; and every selection and every answer of the executor
\* and the detector with the adapter not asked or its text taken over
CreativeSteps ==
    {[d |-> d, llm |-> llm, uw |-> <<0, 1>>, u |-> <<1, 2>>, c |-> 1,
      exec_answer |-> TRUE, answers |-> NoAnswers] : d \in CreativeDraws, llm \in LlmDraws}
    \cup {[d |-> d, llm |-> llm, uw |-> <<0, 1>>, u |-> sd.u, c |-> sd.c,
           exec_answer |-> a.exec_answer, answers |-> a.answers] :
              d \in {dd \in CreativeDraws : dd.evasion.c = 3},
              llm \in {l \in LlmDraws : l.answer.text # <<>> \/ l.u = llm_rate},
              sd \in {[u |-> <<0, 1>>, c |-> 2], [u |-> <<1, 2>>, c |-> 1]},
              a \in ReproduceAnswers}

CreativeInputs ==
    {[op |-> "creative", g |-> name, st |-> CreativeState(seed_store_init(custom_seeds))] :
        name \in {"keyword", "no_keywords"}, custom_seeds \in GeneratorSeedInputs}

\* one generate_one call of a generator built with use_llm = True
GenerateOneCreative ==
    /\ probe.op = "creative"
    /\ probe.st.calls < MaxGenerations
    /\ probe.st.error = ""
    /\ \E in \in CreativeSteps, g \in {reproduce_grammar(probe.g)} :
           \E r \in {generate_one_llm(g, probe.st, in)} :
               probe' = [probe EXCEPT !.st = r]
    /\ UNCHANGED <<bandit_vars, store_vars, generator_vars>>

InitCreative ==
    /\ q = bandit_init(all_arms, DefaultQ).q
    /\ n = bandit_init(all_arms, DefaultQ).n
    /\ bandit_ret = BanditRet("init", NoArm, <<0, 1>>, NoReward)
    /\ applied_rewards = [a \in Range(all_arms) |-> <<>>]
    /\ seeds = <<>>
    /\ store_draws = 0
    /\ store_ret = StoreRet("init", "", <<0, 1>>, 0, "", 0)
    /\ corpus_successful = <<>>
    /\ corpus_origin = <<>>
    /\ calls = <<>>
    /\ record = NoRecord
    /\ ops = 0
    /\ probe \in CreativeInputs

SpecCreative == InitCreative /\ [][GenerateOneCreative]_vars

\* a generate_one call of the generator built with use_llm = True that
\* returned a record
CreativeCallReturned ==
    /\ probe.op = "creative"
    /\ probe'.st.calls = probe.st.calls + 1
    /\ probe'.st.error = ""

\* C31: in a generate_one call that returns, every distinct name of applied
\* that is an arm of the bandit gets exactly one update with the call's
\* reward, however often it was applied; every other arm keeps q and n; the
\* marker of the creative mutation and names the bandit does not know add no
\* arm and cause no error.
BanditUpdatedOncePerAppliedArm ==
    [][CreativeCallReturned =>
          /\ DOMAIN probe'.st.q = DOMAIN probe.st.q
          /\ DOMAIN probe'.st.n = DOMAIN probe.st.n
          /\ \A a \in DOMAIN probe.st.q :
                 IF a \in Range(probe'.st.record.applied_groups)
                 THEN /\ probe'.st.n[a] = probe.st.n[a] + 1
                      /\ probe'.st.q[a] =
                             RAdd(probe.st.q[a],
                                  RDivInt(RSub(probe'.st.record.reward, probe.st.q[a]),
                                          probe.st.n[a] + 1))
                 ELSE /\ probe'.st.n[a] = probe.st.n[a]
                      /\ probe'.st.q[a] = probe.st.q[a]]_vars

\* a first call that applied the group twice, an evasion technique and the
\* creative mutation, each arm among them pulled once
BanditUpdatedOncePerAppliedArmWitness ==
    /\ probe.op = "creative" /\ probe.st.calls = 1 /\ probe.st.error = ""
    /\ \E i, j \in DOMAIN probe.st.record.applied_groups :
           /\ i # j
           /\ probe.st.record.applied_groups[i] = probe.st.record.applied_groups[j]
           /\ probe.st.n[probe.st.record.applied_groups[i]] = 1
    /\ "llm_mutation" \in Range(probe.st.record.applied_groups)
    /\ \E a \in DOMAIN probe.st.n :
           a \notin Range(probe.st.record.applied_groups) /\ probe.st.n[a] = 0

\* C32: every generate_one call that selected a seed changes exactly that
\* seed: its pull count grows by exactly 1 and every other seed keeps q and n
\* (so the pull counts of seeds starting at 0 sum to the number of calls).
GenerationChangesSelectedSeedOnly ==
    [][(/\ probe.op = "creative"
        /\ probe'.st.calls = probe.st.calls + 1
        /\ probe'.st.selected # 0) =>
          /\ probe'.st.seeds[probe'.st.selected].n_s =
                 probe.st.seeds[probe'.st.selected].n_s + 1
          /\ \A i \in DOMAIN probe.st.seeds :
                 i # probe'.st.selected => probe'.st.seeds[i] = probe.st.seeds[i]]_vars

\* C35: the text of the creative-mutation adapter replaces the core only if
\* it passes quick_check on its own, and only then is the marker llm_mutation
\* recorded; when the text is rejected, absent, or the adapter raises, the
\* core stays as it was and no marker is recorded; the marker is no arm of
\* the bandit and leads to no update.
CreativeOutputChecked ==
    probe.op = "creative" =>
        LET stage == probe.st.stage
            returned == probe.st.calls > 0 /\ probe.st.error = ""
        IN  /\ stage.accepted =>
                   /\ stage.asked
                   /\ stage.core # <<>> /\ stage.core # NoneValue
                   /\ quick_check(reproduce_grammar(probe.g), stage.core)
                   /\ stage.applied # <<>>
                   /\ stage.applied[Len(stage.applied)] = "llm_mutation"
            /\ ~stage.accepted =>
                   /\ stage.core = stage.before
                   /\ "llm_mutation" \notin Range(stage.applied)
            /\ returned =>
                   ("llm_mutation" \in Range(probe.st.record.applied_groups)) = stage.accepted
            /\ "llm_mutation" \notin DOMAIN probe.st.q
            /\ "llm_mutation" \notin DOMAIN probe.st.n
            /\ (returned /\ probe.st.calls = 1) =>
                   \A a \in DOMAIN probe.st.n :
                       probe.st.n[a] =
                           IF a \in Range(probe.st.record.applied_groups) THEN 1 ELSE 0

\* a first call, under the grammar with a required keyword, in which the
\* adapter's text replaced the core and the marker was recorded with no arm
\* of the bandit pulled
CreativeOutputCheckedWitness ==
    /\ probe.op = "creative" /\ probe.g = "keyword"
    /\ probe.st.calls = 1 /\ probe.st.error = ""
    /\ probe.st.stage.accepted /\ probe.st.stage.core # probe.st.stage.before
    /\ probe.st.record.applied_groups = <<"llm_mutation">>
    /\ \A a \in DOMAIN probe.st.n : probe.st.n[a] = 0

====
